---- MODULE Spec2Model ----
(***************************************************************************)
(* Ollama2OpenAI gateway: the streaming protocol translators (Anthropic    *)
(* and OpenAI dialects), the NDJSON line parser, the request normalizers   *)
(* and the request gate with its error mapper, modelled from              *)
(* routes/api.js and the Anthropic router.                                 *)
(*                                                                         *)
(* One variable per component holds that component's closure variables as  *)
(* a record whose fields keep the source's names.  Each specification      *)
(* drives one component and leaves the others idle.                        *)
(***************************************************************************)
EXTENDS Integers, Sequences, FiniteSets, TLC

VARIABLES anth, oai, ndj, nrm, gate, conc, tmo, san, lg, mdl

vars == <<anth, oai, ndj, nrm, gate, conc, tmo, san, lg, mdl>>

\* ---------------------------------------------------------------- bounds
\* Number of backend NDJSON lines delivered to one streamed request.
MaxEvents == 3
\* Number of backend NDJSON lines delivered to one OpenAI-dialect streamed request.
MaxLines == 2
\* NDJSON payloads: characters in a line's body, lines in a payload.
MaxBody == 2
MaxPayloadLines == 2
\* Number of further lines the backend delivers after its done line.
MaxAfterDone == 1

\* ------------------------------------------------------- JavaScript values
Undefined == "<undefined>"
Null == "<null>"
Idle == [idle |-> TRUE]

\* JavaScript truthiness of a string-or-absent field (if (data.message.content)).
Truthy(v) == v /= Undefined /\ v /= Null /\ v /= ""

\* --------------------------------------------------- backend stream events
\* One parsed NDJSON line.  data.message?.x is flattened to data.x; an absent
\* message object is the event whose message fields are all Undefined.
\* tool_calls is absent (isArray FALSE) or an array of complete tool calls.
NoToolCalls == [isArray |-> FALSE, items |-> <<>>]
ToolCallArray(items) == [isArray |-> TRUE, items |-> items]
ToolCallLists ==
    {NoToolCalls, ToolCallArray(<<>>), ToolCallArray(<<[name |-> "f"]>>),
     ToolCallArray(<<[name |-> "f"], [name |-> "g"]>>)}

\* An absent prompt_eval_count / eval_count (data.x === undefined).
UndefinedCount == -1

\* The backend reports both counters or neither on a line of these streams.
AnthropicEvents ==
    {d \in [content : {Undefined, "", "c1"},
            thinking : {Undefined, "t1"},
            signature : {Undefined, "sig"},
            tool_calls : ToolCallLists,
            prompt_eval_count : {UndefinedCount, 3},
            eval_count : {UndefinedCount, 2},
            done : BOOLEAN] :
        (d.prompt_eval_count = UndefinedCount) <=> (d.eval_count = UndefinedCount)}

\* Array.isArray(x) && x.length
NonEmptyArray(x) == x.isArray /\ Len(x.items) > 0

\* ------------------------------------------- Anthropic streaming translator
Event(type, index, detail, usage) ==
    [type |-> type, index |-> index, detail |-> detail, usage |-> usage]

NoIndex == -1
NoUsage == <<>>

\* res.write after res.end() delivers nothing to the client.
sendEvent(st, ev) ==
    IF st.resEnded THEN st ELSE [st EXCEPT !.wire = Append(@, ev)]

ensureThinkingBlock(st) ==
    IF ~st.thinkingBlockStarted
    THEN LET s1 == [st EXCEPT !.thinkingBlockIndex = st.nextContentIndex,
                              !.nextContentIndex = @ + 1]
             s2 == sendEvent(s1, Event("content_block_start", s1.thinkingBlockIndex,
                                       "thinking", NoUsage))
         IN [s2 EXCEPT !.thinkingBlockOpen = TRUE, !.thinkingBlockStarted = TRUE]
    ELSE st

\* Variant: the text block takes the counter's value without advancing it.
ensureTextBlock_noAdvance(st) ==
    IF ~st.textBlockStarted
    THEN LET s1 == [st EXCEPT !.textBlockIndex = st.nextContentIndex]
             s2 == sendEvent(s1, Event("content_block_start", s1.textBlockIndex,
                                       "text", NoUsage))
         IN [s2 EXCEPT !.textBlockOpen = TRUE, !.textBlockStarted = TRUE]
    ELSE st

ensureTextBlock(st) ==
    IF ~st.textBlockStarted
    THEN LET s1 == [st EXCEPT !.textBlockIndex = st.nextContentIndex,
                              !.nextContentIndex = @ + 1]
             s2 == sendEvent(s1, Event("content_block_start", s1.textBlockIndex,
                                       "text", NoUsage))
         IN [s2 EXCEPT !.textBlockOpen = TRUE, !.textBlockStarted = TRUE]
    ELSE st

closeThinkingBlock(st) ==
    IF st.thinkingBlockOpen
    THEN [sendEvent(st, Event("content_block_stop", st.thinkingBlockIndex, "", NoUsage))
            EXCEPT !.thinkingBlockOpen = FALSE]
    ELSE st

\* Variant: the text block is marked closed but no content_block_stop is written.
closeTextBlock_silent(st) ==
    IF st.textBlockOpen THEN [st EXCEPT !.textBlockOpen = FALSE] ELSE st

closeTextBlock(st) ==
    IF st.textBlockOpen
    THEN [sendEvent(st, Event("content_block_stop", st.textBlockIndex, "", NoUsage))
            EXCEPT !.textBlockOpen = FALSE]
    ELSE st

\* name: toolCall.function?.name || 'function'
convertToolCallToAnthropicBlock(toolCall) ==
    IF Truthy(toolCall.name) THEN toolCall.name ELSE "function"

\* toolCalls.forEach: one content_block_start / content_block_stop pair each.
RECURSIVE emitToolUseBlocks(_, _)
emitToolUseBlocks(st, calls) ==
    IF calls = <<>> THEN st
    ELSE LET blockIndex == st.nextContentIndex
             s1 == [st EXCEPT !.nextContentIndex = @ + 1]
             s2 == sendEvent(s1, Event("content_block_start", blockIndex,
                                       "tool_use:" \o convertToolCallToAnthropicBlock(Head(calls)),
                                       NoUsage))
             s3 == sendEvent(s2, Event("content_block_stop", blockIndex, "", NoUsage))
         IN emitToolUseBlocks(s3, Tail(calls))

\* logRequestWithTokens(req, ..., status, tokenUsage)
logRequest(st, status, p, c, t) ==
    [st EXCEPT !.logs = Append(@, [status |-> status, prompt_tokens |-> p,
                                   completion_tokens |-> c, total_tokens |-> t])]

anthropicOnContent(st, data) ==
    IF Truthy(data.content)
    THEN LET s1 == [st EXCEPT !.responseContent = @ \o data.content]
             s2 == ensureTextBlock(s1)
         IN sendEvent(s2, Event("content_block_delta", s2.textBlockIndex, "text_delta", NoUsage))
    ELSE st

anthropicOnThinking(st, data) ==
    IF Truthy(data.thinking)
    THEN LET s1 == [st EXCEPT !.thinkingContent = @ \o data.thinking]
             s2 == ensureThinkingBlock(s1)
         IN sendEvent(s2, Event("content_block_delta", s2.thinkingBlockIndex,
                                "thinking_delta", NoUsage))
    ELSE st

anthropicOnSignature(st, data) ==
    IF Truthy(data.signature)
    THEN LET s2 == ensureThinkingBlock(st)
         IN sendEvent(s2, Event("content_block_delta", s2.thinkingBlockIndex,
                                "signature_delta", NoUsage))
    ELSE st

\* Variant: a new tool_calls list is appended to the tracked one.
anthropicOnCounters_appendsToolCalls(st, data) ==
    LET s1 == IF NonEmptyArray(data.tool_calls)
              THEN [st EXCEPT !.toolCalls = @ \o data.tool_calls.items] ELSE st
        s2 == IF data.prompt_eval_count /= UndefinedCount
              THEN [s1 EXCEPT !.promptTokens = data.prompt_eval_count] ELSE s1
    IN IF data.eval_count /= UndefinedCount
       THEN [s2 EXCEPT !.completionTokens = data.eval_count] ELSE s2

anthropicOnCounters(st, data) ==
    LET s1 == IF NonEmptyArray(data.tool_calls)
              THEN [st EXCEPT !.toolCalls = data.tool_calls.items] ELSE st
        s2 == IF data.prompt_eval_count /= UndefinedCount
              THEN [s1 EXCEPT !.promptTokens = data.prompt_eval_count] ELSE s1
    IN IF data.eval_count /= UndefinedCount
       THEN [s2 EXCEPT !.completionTokens = data.eval_count] ELSE s2

\* Variant: at finalization the text block is closed before the thinking block.
anthropicOnDone_textFirst(st, data) ==
    IF data.done
    THEN LET s1 == closeTextBlock(st)
             s2 == closeThinkingBlock(s1)
             s3 == emitToolUseBlocks(s2, s2.toolCalls)
             s4 == sendEvent(s3, Event("message_delta", NoIndex,
                                       IF Len(s3.toolCalls) > 0 THEN "tool_use" ELSE "end_turn",
                                       <<s3.promptTokens, s3.completionTokens>>))
             s5 == sendEvent(s4, Event("message_stop", NoIndex, "", NoUsage))
             s6 == sendEvent(s5, Event("done", NoIndex, "", NoUsage))
             s7 == logRequest(s6, "success", s6.promptTokens, s6.completionTokens,
                              s6.promptTokens + s6.completionTokens)
         IN [s7 EXCEPT !.resEnded = TRUE]
    ELSE st

anthropicOnDone(st, data) ==
    IF data.done
    THEN LET s1 == closeThinkingBlock(st)
             s2 == closeTextBlock(s1)
             s3 == emitToolUseBlocks(s2, s2.toolCalls)
             s4 == sendEvent(s3, Event("message_delta", NoIndex,
                                       IF Len(s3.toolCalls) > 0 THEN "tool_use" ELSE "end_turn",
                                       <<s3.promptTokens, s3.completionTokens>>))
             s5 == sendEvent(s4, Event("message_stop", NoIndex, "", NoUsage))
             s6 == sendEvent(s5, Event("done", NoIndex, "", NoUsage))
             s7 == logRequest(s6, "success", s6.promptTokens, s6.completionTokens,
                              s6.promptTokens + s6.completionTokens)
         IN [s7 EXCEPT !.resEnded = TRUE]
    ELSE st

\* The parser callback of handleStreamingAnthropicResponse, for one parsed line.
anthropicOnObject(st, data) ==
    anthropicOnDone(
        anthropicOnCounters(
            anthropicOnSignature(
                anthropicOnThinking(
                    anthropicOnContent(st, data), data), data), data), data)

\* The events of the scenario "thinking fragment, content fragment, done".
NoData ==
    [content |-> Undefined, thinking |-> Undefined, signature |-> Undefined,
     tool_calls |-> NoToolCalls, prompt_eval_count |-> UndefinedCount,
     eval_count |-> UndefinedCount, done |-> FALSE]

ThinkingThenText ==
    << [NoData EXCEPT !.thinking = "t1"],
       [NoData EXCEPT !.content = "c1"],
       [NoData EXCEPT !.done = TRUE] >>

\* Observer: how many lines of ThinkingThenText the request has received so
\* far, or -1 once the lines received differ from it.
ScenarioStep(k, scenario, data) ==
    IF k >= 0 /\ k < Len(scenario) /\ data = scenario[k + 1] THEN k + 1 ELSE -1

\* Observers (not program state): received, afterDone, doneSeen and scenario
\* count the lines delivered; seenToolCalls is the last non-empty tool_calls
\* list delivered up to the done line and toolCallLines the number of lines
\* that carried one.
\* State right after handleStreamingAnthropicResponse has run: headers set,
\* message_start written, closure variables initialised, listeners attached.
AnthropicInitState ==
    [responseContent |-> "", thinkingContent |-> "", toolCalls |-> <<>>,
     promptTokens |-> 0, completionTokens |-> 0,
     nextContentIndex |-> 0,
     thinkingBlockIndex |-> NoIndex, textBlockIndex |-> NoIndex,
     thinkingBlockOpen |-> FALSE, thinkingBlockStarted |-> FALSE,
     textBlockOpen |-> FALSE, textBlockStarted |-> FALSE,
     wire |-> << Event("message_start", NoIndex, "", NoUsage) >>,
     headersSent |-> TRUE,
     resEnded |-> FALSE,
     clientClosed |-> FALSE,
     streamDestroyed |-> FALSE,
     streamErrored |-> FALSE,
     doneSeen |-> FALSE,
     logs |-> <<>>,
     received |-> 0,
     afterDone |-> 0,
     scenario |-> 0,
     seenToolCalls |-> <<>>,
     toolCallLines |-> 0]

InitAnthropic ==
    /\ anth = AnthropicInitState
    /\ oai = Idle
    /\ ndj = Idle
    /\ nrm = Idle
    /\ gate = Idle
    /\ conc = Idle
    /\ tmo = Idle
    /\ san = Idle
    /\ lg = Idle
    /\ mdl = Idle

\* ollamaStream.on('data', parser): one complete line reaches the callback.
AnthropicData(data) ==
    /\ ~anth.streamDestroyed
    /\ ~anth.streamErrored
    /\ anth.received < MaxEvents
    /\ anth.afterDone < MaxAfterDone
    /\ data \in AnthropicEvents
    /\ anth' = [anthropicOnObject(anth, data) EXCEPT
                   !.received = @ + 1,
                   !.afterDone = IF anth.doneSeen THEN @ + 1 ELSE @,
                   !.doneSeen = @ \/ data.done,
                   !.scenario = ScenarioStep(@, ThinkingThenText, data),
                   !.seenToolCalls = IF ~anth.doneSeen /\ NonEmptyArray(data.tool_calls)
                                     THEN data.tool_calls.items ELSE @,
                   !.toolCallLines = IF ~anth.doneSeen /\ NonEmptyArray(data.tool_calls)
                                     THEN @ + 1 ELSE @]
    /\ UNCHANGED <<oai, ndj, nrm, gate, conc, tmo, san, lg, mdl>>

\* ollamaStream.on('error', ...)
AnthropicStreamError ==
    /\ ~anth.streamDestroyed
    /\ ~anth.streamErrored
    /\ LET s1 == IF ~anth.headersSent
                 THEN sendEvent(anth, Event("error", NoIndex, "server_error", NoUsage))
                 ELSE anth
           s2 == [s1 EXCEPT !.resEnded = TRUE, !.streamErrored = TRUE]
       IN anth' = logRequest(s2, "error", 0, 0, 0)
    /\ UNCHANGED <<oai, ndj, nrm, gate, conc, tmo, san, lg, mdl>>

\* req.on('close', ...): the client went away; the backend stream is destroyed.
AnthropicClientClose_noDestroy ==
    /\ ~anth.clientClosed
    /\ anth' = [anth EXCEPT !.clientClosed = TRUE]
    /\ UNCHANGED <<oai, ndj, nrm, gate, conc, tmo, san, lg, mdl>>

AnthropicClientClose ==
    /\ ~anth.clientClosed
    /\ anth' = [anth EXCEPT !.clientClosed = TRUE, !.streamDestroyed = TRUE]
    /\ UNCHANGED <<oai, ndj, nrm, gate, conc, tmo, san, lg, mdl>>

NextAnthropic ==
    \/ \E data \in AnthropicEvents : AnthropicData(data)
    \/ AnthropicStreamError
    \/ AnthropicClientClose

SpecAnthropic == InitAnthropic /\ [][NextAnthropic]_vars

\* ---------------------------------------------- OpenAI streaming translator
OpenAIEvents ==
    [content : {Undefined, "", "c1"},
     thinking : {Undefined, "t1"},
     signature : {Undefined},
     tool_calls : {NoToolCalls, ToolCallArray(<<[name |-> "f"]>>)},
     prompt_eval_count : {UndefinedCount, 0, 3},
     eval_count : {UndefinedCount, 0, 2},
     done : BOOLEAN]

\* A chat.completion.chunk as written on the wire: its delta, finish_reason and usage.
EmptyDelta ==
    [role |-> Undefined, content |-> Undefined, reasoning_content |-> Undefined,
     tool_calls |-> <<>>]

Chunk(delta, finish_reason, usage) ==
    [kind |-> "chunk", delta |-> delta, finish_reason |-> finish_reason, usage |-> usage]

DoneLine == [kind |-> "[DONE]", delta |-> EmptyDelta, finish_reason |-> Null, usage |-> NoUsage]
ErrorLine == [kind |-> "error", delta |-> EmptyDelta, finish_reason |-> Null, usage |-> NoUsage]

\* res.write: the first write flushes the headers; after res.end() nothing is delivered.
resWrite(st, line) ==
    IF st.resEnded THEN st
    ELSE [st EXCEPT !.wire = Append(@, line), !.headersSent = TRUE]

\* responseContent += ..., thinkingContent += ...
openaiAccumulate(st, data) ==
    LET s1 == IF Truthy(data.content)
              THEN [st EXCEPT !.responseContent = @ \o data.content] ELSE st
    IN IF Truthy(data.thinking)
       THEN [s1 EXCEPT !.thinkingContent = @ \o data.thinking] ELSE s1

\* if (!sentRole) { delta.role = 'assistant'; write; delta = {} }
openaiRolePreface(st) ==
    IF ~st.sentRole
    THEN resWrite([st EXCEPT !.sentRole = TRUE],
                  Chunk([EmptyDelta EXCEPT !.role = "assistant"], Null, NoUsage))
    ELSE st

\* The delta built from one event (content, reasoning_content, tool_calls).
openaiDelta(st, data) ==
    [role |-> Undefined,
     content |-> IF data.content /= Undefined /\ data.content /= ""
                 THEN data.content ELSE Undefined,
     reasoning_content |-> IF Truthy(data.thinking) /\ st.shouldIncludeReasoning
                           THEN data.thinking ELSE Undefined,
     tool_calls |-> IF NonEmptyArray(data.tool_calls)
                    THEN [i \in 1..Len(data.tool_calls.items) |-> data.tool_calls.items[i].name]
                    ELSE <<>>]

\* Variant: tool calls are forwarded but not remembered.
openaiSawToolCalls_forgets(st, data) == st

openaiSawToolCalls(st, data) ==
    IF NonEmptyArray(data.tool_calls) THEN [st EXCEPT !.sawToolCalls = TRUE] ELSE st

\* Variant: the chunk is written whatever its delta holds.
openaiWriteDelta_always(st, d) == resWrite(st, Chunk(d, Null, NoUsage))

\* if (d.content || d.reasoning_content || d.tool_calls || d.role) res.write(chunk)
openaiWriteDelta(st, d) ==
    IF Truthy(d.content) \/ Truthy(d.reasoning_content) \/ d.tool_calls /= <<>> \/ Truthy(d.role)
    THEN resWrite(st, Chunk(d, Null, NoUsage))
    ELSE st

\* Variant: the reported counts are added to the running counters.
openaiTokenUsage_sums(st, data) ==
    LET p == IF data.prompt_eval_count /= UndefinedCount
             THEN st.tokenUsage.prompt_tokens + data.prompt_eval_count
             ELSE st.tokenUsage.prompt_tokens
        c == IF data.eval_count /= UndefinedCount
             THEN st.tokenUsage.completion_tokens + data.eval_count
             ELSE st.tokenUsage.completion_tokens
        t == IF p /= 0 /\ c /= 0 THEN p + c ELSE st.tokenUsage.total_tokens
    IN [st EXCEPT !.tokenUsage =
            [prompt_tokens |-> p, completion_tokens |-> c, total_tokens |-> t]]

\* Counters are copied when the field is present; total_tokens is recomputed
\* only when both counters are non-zero.
openaiTokenUsage(st, data) ==
    LET p == IF data.prompt_eval_count /= UndefinedCount
             THEN data.prompt_eval_count ELSE st.tokenUsage.prompt_tokens
        c == IF data.eval_count /= UndefinedCount
             THEN data.eval_count ELSE st.tokenUsage.completion_tokens
        t == IF p /= 0 /\ c /= 0 THEN p + c ELSE st.tokenUsage.total_tokens
    IN [st EXCEPT !.tokenUsage =
            [prompt_tokens |-> p, completion_tokens |-> c, total_tokens |-> t]]

openaiFinalize(st, data) ==
    IF data.done
    THEN LET fin == Chunk(EmptyDelta,
                          IF st.sawToolCalls THEN "tool_calls" ELSE "stop",
                          <<st.tokenUsage.prompt_tokens, st.tokenUsage.completion_tokens,
                            st.tokenUsage.total_tokens>>)
             s1 == resWrite(st, fin)
             s2 == resWrite(s1, DoneLine)
             s3 == logRequest(s2, "success", s2.tokenUsage.prompt_tokens,
                              s2.tokenUsage.completion_tokens, s2.tokenUsage.total_tokens)
         IN [s3 EXCEPT !.resEnded = TRUE]
    ELSE st

\* The parser callback of the /chat/completions stream branch, for one parsed line.
openaiOnObject(st, data) ==
    LET s1 == openaiAccumulate(st, data)
        s2 == openaiRolePreface(s1)
        d == openaiDelta(s2, data)
        s3 == openaiSawToolCalls(s2, data)
        s4 == openaiWriteDelta(s3, d)
        s5 == openaiTokenUsage(s4, data)
    IN openaiFinalize(s5, data)

\* Observers (not program state): received, afterDone and doneSeen count the
\* lines delivered; seenPrompt and seenEval are the last prompt_eval_count and
\* eval_count delivered up to the done line, counterLines the number of lines
\* that carried both.
\* State when the stream branch has set the headers and attached its listeners.
OpenAIInitState(include) ==
    [sentRole |-> FALSE, responseContent |-> "", thinkingContent |-> "",
     sawToolCalls |-> FALSE,
     tokenUsage |-> [prompt_tokens |-> 0, completion_tokens |-> 0, total_tokens |-> 0],
     shouldIncludeReasoning |-> include,
     wire |-> <<>>,
     headersSent |-> FALSE,
     resEnded |-> FALSE,
     clientClosed |-> FALSE,
     streamDestroyed |-> FALSE,
     streamErrored |-> FALSE,
     streamEnded |-> FALSE,
     doneSeen |-> FALSE,
     logs |-> <<>>,
     received |-> 0,
     afterDone |-> 0,
     seenPrompt |-> 0,
     seenEval |-> 0,
     counterLines |-> 0]

InitOpenAI ==
    /\ \E include \in BOOLEAN : oai = OpenAIInitState(include)
    /\ anth = Idle
    /\ ndj = Idle
    /\ nrm = Idle
    /\ gate = Idle
    /\ conc = Idle
    /\ tmo = Idle
    /\ san = Idle
    /\ lg = Idle
    /\ mdl = Idle

\* ollamaResponse.data.on('data', pump): one complete line reaches the callback.
OpenAIData(data) ==
    /\ ~oai.streamDestroyed
    /\ ~oai.streamErrored
    /\ ~oai.streamEnded
    /\ oai.received < MaxLines
    /\ oai.afterDone < MaxAfterDone
    /\ data \in OpenAIEvents
    /\ oai' = [openaiOnObject(oai, data) EXCEPT
                  !.received = @ + 1,
                  !.afterDone = IF oai.doneSeen THEN @ + 1 ELSE @,
                  !.doneSeen = @ \/ data.done,
                  !.seenPrompt = IF ~oai.doneSeen /\ data.prompt_eval_count /= UndefinedCount
                                 THEN data.prompt_eval_count ELSE @,
                  !.seenEval = IF ~oai.doneSeen /\ data.eval_count /= UndefinedCount
                               THEN data.eval_count ELSE @,
                  !.counterLines = IF /\ ~oai.doneSeen
                                      /\ data.prompt_eval_count /= UndefinedCount
                                      /\ data.eval_count /= UndefinedCount
                                   THEN @ + 1 ELSE @]
    /\ UNCHANGED <<anth, ndj, nrm, gate, conc, tmo, san, lg, mdl>>

\* ollamaResponse.data.on('error', ...)
OpenAIStreamError ==
    /\ ~oai.streamDestroyed
    /\ ~oai.streamErrored
    /\ ~oai.streamEnded
    /\ LET s1 == IF ~oai.headersSent THEN resWrite(oai, ErrorLine) ELSE oai
           s2 == [s1 EXCEPT !.resEnded = TRUE, !.streamErrored = TRUE]
       IN oai' = logRequest(s2, "error", 0, 0, 0)
    /\ UNCHANGED <<anth, ndj, nrm, gate, conc, tmo, san, lg, mdl>>

\* req.on('close', ...)
OpenAIClientClose ==
    /\ ~oai.clientClosed
    /\ oai' = [oai EXCEPT !.clientClosed = TRUE, !.streamDestroyed = TRUE]
    /\ UNCHANGED <<anth, ndj, nrm, gate, conc, tmo, san, lg, mdl>>

NextOpenAI ==
    \/ \E data \in OpenAIEvents : OpenAIData(data)
    \/ OpenAIStreamError
    \/ OpenAIClientClose

SpecOpenAI == InitOpenAI /\ [][NextOpenAI]_vars

\* The backend stream ends: the handler registers listeners for 'data' and
\* 'error' only, so nothing runs.
OpenAIStreamEnd ==
    /\ ~oai.streamDestroyed
    /\ ~oai.streamErrored
    /\ ~oai.streamEnded
    /\ oai' = [oai EXCEPT !.streamEnded = TRUE]
    /\ UNCHANGED <<anth, ndj, nrm, gate, conc, tmo, san, lg, mdl>>

\* What the backend stream does next: a line, an error or its end.
OpenAIBackendEvent ==
    \/ \E data \in OpenAIEvents : OpenAIData(data)
    \/ OpenAIStreamError
    \/ OpenAIStreamEnd

NextOpenAILive == OpenAIBackendEvent \/ OpenAIClientClose

\* The event loop delivers the backend stream's events; the client is free
\* never to disconnect.
SpecOpenAILive == InitOpenAI /\ [][NextOpenAILive]_vars /\ WF_vars(OpenAIBackendEvent)

\* ------------------------------------------------------------- NDJSON parser
\* Bytes on the backend socket.  "C3" "A9" is the two-byte UTF-8 encoding of
\* one non-ASCII character; every other byte is one ASCII character.
LF == "\n"
Replacement == "U+FFFD"
EAcute == "U+00E9"
BodyUnits == { <<"a">>, <<"C3", "A9">> }

RECURSIVE BodiesOf(_)
BodiesOf(n) ==
    IF n = 0 THEN { <<>> }
    ELSE BodiesOf(n - 1) \cup { b \o u : b \in BodiesOf(n - 1), u \in BodyUnits }

\* The JSON lines the backend sends: an object around a body, as bytes, or the
\* JSON text null (written as one unit).
JsonNull == <<"null">>
JsonLines == { <<"{">> \o b \o <<"}">> : b \in BodiesOf(MaxBody) } \cup {JsonNull}

RECURSIVE PayloadsOf(_)
PayloadsOf(n) ==
    IF n = 0 THEN { <<>> }
    ELSE PayloadsOf(n - 1) \cup
         { pl \o l \o <<LF>> : pl \in PayloadsOf(n - 1), l \in JsonLines \cup { <<>> } }

\* chunk.toString('utf8'): each chunk is decoded on its own, so a multi-byte
\* character cut by the chunk boundary becomes replacement characters.
RECURSIVE toStringUtf8(_)
toStringUtf8(bytes) ==
    IF bytes = <<>> THEN <<>>
    ELSE IF bytes[1] = "C3"
         THEN IF Len(bytes) >= 2 /\ bytes[2] = "A9"
              THEN <<EAcute>> \o toStringUtf8(SubSeq(bytes, 3, Len(bytes)))
              ELSE <<Replacement>> \o toStringUtf8(Tail(bytes))
         ELSE IF bytes[1] = "A9"
              THEN <<Replacement>> \o toStringUtf8(Tail(bytes))
              ELSE <<bytes[1]>> \o toStringUtf8(Tail(bytes))

\* buffer.indexOf('\n'), 1-based; 0 when there is none.
indexOfNewline(buffer) ==
    IF \E i \in 1..Len(buffer) : buffer[i] = LF
    THEN CHOOSE i \in 1..Len(buffer) :
            buffer[i] = LF /\ \A j \in 1..(i - 1) : buffer[j] /= LF
    ELSE 0

\* String.prototype.trim
RECURSIVE trim(_)
trim(line) ==
    IF line /= <<>> /\ line[1] = " " THEN trim(Tail(line))
    ELSE IF line /= <<>> /\ line[Len(line)] = " " THEN trim(SubSeq(line, 1, Len(line) - 1))
    ELSE line

\* JSON.parse on a line of this payload language: it succeeds on "{" body "}"
\* with no brace inside the body, and yields the body's characters.
jsonParses(line) ==
    \/ line = JsonNull
    \/ /\ Len(line) >= 2
       /\ line[1] = "{"
       /\ line[Len(line)] = "}"
       /\ \A i \in 2..(Len(line) - 1) : line[i] \notin {"{", "}"}

jsonValue(line) == IF line = JsonNull THEN JsonNull ELSE SubSeq(line, 2, Len(line) - 1)

\* The stream callbacks start by reading data.message, which throws a TypeError
\* when the parsed line is null.
onObjectThrows(data) == data = JsonNull

\* The while loop of createNdjsonParser over the buffered text.
RECURSIVE ndjsonDrain(_)
ndjsonDrain(p) ==
    LET idx == indexOfNewline(p.buffer)
        line == trim(SubSeq(p.buffer, 1, idx - 1))
        rest == SubSeq(p.buffer, idx + 1, Len(p.buffer))
    IN IF idx = 0 THEN p
       ELSE IF line = <<>> THEN ndjsonDrain([p EXCEPT !.buffer = rest])
       ELSE IF ~jsonParses(line)
            THEN [p EXCEPT !.buffer = line \o <<LF>> \o rest]
            ELSE IF onObjectThrows(jsonValue(line))
                 THEN [p EXCEPT !.buffer = line \o <<LF>> \o rest,
                                !.objects = Append(@, jsonValue(line))]
                 ELSE ndjsonDrain([p EXCEPT !.buffer = rest,
                                            !.objects = Append(@, jsonValue(line))])

\* The function createNdjsonParser returns, applied to one chunk.
ndjsonFeed(p, chunk) ==
    ndjsonDrain([p EXCEPT !.buffer = @ \o toStringUtf8(chunk)])

NewParser == [buffer |-> <<>>, objects |-> <<>>]

\* Offsets that cut the payload between two bytes of one line.
SplitOffsets(payload) == {k \in 1..(Len(payload) - 1) : payload[k] /= LF}

\* Two parsers receive the same payload: `whole` in one chunk, `parts` in two
\* chunks cut at `offset`.
InitNdjson ==
    /\ \E payload \in PayloadsOf(MaxPayloadLines) :
         \E offset \in SplitOffsets(payload) :
            ndj = [payload |-> payload, offset |-> offset,
                   whole |-> NewParser, wholeFed |-> 0,
                   parts |-> NewParser, partsFed |-> 0]
    /\ anth = Idle
    /\ oai = Idle
    /\ nrm = Idle
    /\ gate = Idle
    /\ conc = Idle
    /\ tmo = Idle
    /\ san = Idle
    /\ lg = Idle
    /\ mdl = Idle

FeedWhole ==
    /\ ndj.wholeFed = 0
    /\ ndj' = [ndj EXCEPT !.whole = ndjsonFeed(@, ndj.payload), !.wholeFed = 1]
    /\ UNCHANGED <<anth, oai, nrm, gate, conc, tmo, san, lg, mdl>>

FeedFirstPart ==
    /\ ndj.partsFed = 0
    /\ ndj' = [ndj EXCEPT !.parts = ndjsonFeed(@, SubSeq(ndj.payload, 1, ndj.offset)),
                          !.partsFed = 1]
    /\ UNCHANGED <<anth, oai, nrm, gate, conc, tmo, san, lg, mdl>>

FeedSecondPart ==
    /\ ndj.partsFed = 1
    /\ ndj' = [ndj EXCEPT !.parts = ndjsonFeed(@, SubSeq(ndj.payload, ndj.offset + 1,
                                                          Len(ndj.payload))),
                          !.partsFed = 2]
    /\ UNCHANGED <<anth, oai, nrm, gate, conc, tmo, san, lg, mdl>>

NextNdjson == FeedWhole \/ FeedFirstPart \/ FeedSecondPart

SpecNdjson == InitNdjson /\ [][NextNdjson]_vars

\* -------------------------------------------------------- request normalizers
\* JavaScript booleans in fields that also take strings.
JTrue == "<true>"
JFalse == "<false>"
JObject == "<object>"

\* Option bags: a function from option key to value; Absent marks a key the
\* bag does not have.  "custom" stands for a key outside the known-key list.
Absent == -1
OptionKeys ==
    {"temperature", "top_p", "top_k", "num_predict", "num_ctx", "stop",
     "presence_penalty", "frequency_penalty", "user", "custom"}

knownOptionKeys ==
    {"temperature", "top_p", "top_k", "typical_p", "min_p", "tfs_z", "cfg_scale",
     "num_predict", "num_ctx", "seed", "stop", "stop_sequences",
     "repeat_penalty", "repeat_last_n", "penalty_decay", "presence_penalty",
     "frequency_penalty", "mirostat", "mirostat_eta", "mirostat_tau"}

EmptyBag == [k \in OptionKeys |-> Absent]

\* The bags holding value v under some of the given keys.
BagsOver(keys, v) ==
    { [k \in OptionKeys |-> IF k \in present THEN v ELSE Absent] : present \in SUBSET keys }

\* Variant: unknown keys are stripped whatever the flag says.
processOptions_alwaysStrips(options, allowUnverified) ==
    [k \in OptionKeys |-> IF k \notin knownOptionKeys THEN Absent ELSE options[k]]

\* processOptions(...).sanitized: a copy, without the unknown keys when
\* unverified options are not allowed.
processOptions(options, allowUnverified) ==
    [k \in OptionKeys |->
        IF k \notin knownOptionKeys /\ ~allowUnverified THEN Absent ELSE options[k]]

\* Object.assign(target, source)
mergePlainObject(target, source) ==
    [k \in OptionKeys |-> IF source[k] /= Absent THEN source[k] ELSE target[k]]

\* ollamaRequest.options[key] = value when the named request field is present.
setOption(options, key, value) ==
    IF value /= Absent THEN [options EXCEPT ![key] = value] ELSE options

\* reasoning_effort / reasoning.effort to think
effortToThink(effort) ==
    IF effort = "minimal" THEN JFalse
    ELSE IF effort \in {"low", "medium", "high"} THEN effort
    ELSE JTrue

NoReasoning == [present |-> FALSE, enabled |-> Undefined, effort |-> Undefined]

\* Variant: the override's think is applied after the request's directives.
openaiResolveThink_overrideLast(req, overrideThink) ==
    LET fromRequest ==
            IF req.think /= Undefined THEN [error |-> FALSE, think |-> req.think]
            ELSE IF req.reasoning_effort /= Undefined
            THEN [error |-> FALSE, think |-> effortToThink(req.reasoning_effort)]
            ELSE IF req.reasoning.present
            THEN IF req.reasoning.enabled /= Undefined /\ req.reasoning.effort /= Undefined
                 THEN [error |-> TRUE, think |-> Undefined]
                 ELSE IF req.reasoning.effort /= Undefined
                 THEN [error |-> FALSE, think |-> effortToThink(req.reasoning.effort)]
                 ELSE IF req.reasoning.enabled = JFalse
                 THEN [error |-> FALSE, think |-> JFalse]
                 ELSE [error |-> FALSE, think |-> JTrue]
            ELSE [error |-> FALSE, think |-> Undefined]
    IN IF overrideThink /= Undefined /\ ~fromRequest.error
       THEN [error |-> FALSE, think |-> overrideThink]
       ELSE fromRequest

\* convertToOllamaRequest, think: the override's value first, then the
\* request's think / reasoning_effort / reasoning chain over it.
openaiResolveThink(req, overrideThink) ==
    IF req.think /= Undefined THEN [error |-> FALSE, think |-> req.think]
    ELSE IF req.reasoning_effort /= Undefined
    THEN [error |-> FALSE, think |-> effortToThink(req.reasoning_effort)]
    ELSE IF req.reasoning.present
    THEN IF req.reasoning.enabled /= Undefined /\ req.reasoning.effort /= Undefined
         THEN [error |-> TRUE, think |-> Undefined]
         ELSE IF req.reasoning.effort /= Undefined
         THEN [error |-> FALSE, think |-> effortToThink(req.reasoning.effort)]
         ELSE IF req.reasoning.enabled = JFalse
         THEN [error |-> FALSE, think |-> JFalse]
         ELSE [error |-> FALSE, think |-> JTrue]
    ELSE [error |-> FALSE, think |-> overrideThink]

\* Variant: the model override's options are merged last.
openaiOptions_overrideLast(req, overrideOptions, allowUnverified) ==
    LET o1 == mergePlainObject(EmptyBag, processOptions(req.extra_body_options, allowUnverified))
        o2 == mergePlainObject(o1, processOptions(req.options, allowUnverified))
        o3 == setOption(o2, "temperature", req.temperature)
        o4 == setOption(o3, "num_predict", req.max_tokens)
        o5 == setOption(o4, "top_p", req.top_p)
        o6 == setOption(o5, "frequency_penalty", req.frequency_penalty)
        o7 == setOption(o6, "presence_penalty", req.presence_penalty)
        o8 == setOption(o7, "num_ctx", req.num_ctx)
        o9 == setOption(o8, "num_predict", req.num_predict)
    IN mergePlainObject(o9, processOptions(overrideOptions, allowUnverified))

\* convertToOllamaRequest, options: override options, extra_body.options and
\* request.options merged in that order, then the named request fields.
openaiOptions(req, overrideOptions, allowUnverified) ==
    LET o1 == mergePlainObject(EmptyBag, processOptions(overrideOptions, allowUnverified))
        o2 == mergePlainObject(o1, processOptions(req.extra_body_options, allowUnverified))
        o3 == mergePlainObject(o2, processOptions(req.options, allowUnverified))
        o4 == setOption(o3, "temperature", req.temperature)
        o5 == setOption(o4, "num_predict", req.max_tokens)
        o6 == setOption(o5, "top_p", req.top_p)
        o7 == setOption(o6, "frequency_penalty", req.frequency_penalty)
        o8 == setOption(o7, "presence_penalty", req.presence_penalty)
        o9 == setOption(o8, "num_ctx", req.num_ctx)
    IN setOption(o9, "num_predict", req.num_predict)

\* convertToOllamaRequest: the request for the backend, or a thrown error.
convertToOllamaRequest(req, overrides, allowUnverified) ==
    LET t == openaiResolveThink(req, overrides.think)
    IN IF t.error
       THEN [error |-> TRUE, think |-> Undefined, options |-> EmptyBag]
       ELSE [error |-> FALSE, think |-> t.think,
             options |-> openaiOptions(req, overrides.options, allowUnverified)]

\* mapThinkingValue
mapThinkingValue(value) ==
    IF value \in {JTrue, JFalse} THEN value
    ELSE IF value = JObject THEN Undefined
    ELSE LET normalized == IF value = "HIGH" THEN "high" ELSE value
         IN IF normalized \in {"low", "medium", "high"} THEN normalized
            ELSE IF normalized = "minimal" THEN JFalse
            ELSE Undefined

\* extractAnthropicThinkingPreference
extractAnthropicThinkingPreference(req) ==
    IF req.thinking /= Undefined THEN mapThinkingValue(req.thinking)
    ELSE IF req.extra_body_think /= Undefined THEN mapThinkingValue(req.extra_body_think)
    ELSE Undefined

\* convertAnthropicToOllamaRequest, think
anthropicResolveThink(req, overrideThink) ==
    LET requestedThink == extractAnthropicThinkingPreference(req)
    IN IF requestedThink /= Undefined THEN requestedThink ELSE overrideThink

\* convertAnthropicToOllamaRequest, options: the override's options unsanitized,
\* then the named request fields, extra_body.ollama_options, the remaining
\* extra_body keys and metadata.user_id.
anthropicOptions(req, overrideOptions) ==
    LET o1 == setOption(overrideOptions, "temperature", req.temperature)
        o2 == setOption(o1, "num_predict", req.max_tokens)
        o3 == setOption(o2, "num_predict", req.max_output_tokens)
        o4 == setOption(o3, "top_p", req.top_p)
        o5 == setOption(o4, "top_k", req.top_k)
        o6 == setOption(o5, "presence_penalty", req.presence_penalty)
        o7 == setOption(o6, "frequency_penalty", req.frequency_penalty)
        o8 == setOption(o7, "stop", req.stop_sequences)
        o9 == mergePlainObject(o8, req.extra_body_ollama_options)
        o10 == mergePlainObject(o9, req.extra_body_passthrough)
    IN setOption(o10, "user", req.metadata_user_id)

convertAnthropicToOllamaRequest(req, overrides) ==
    [error |-> FALSE, think |-> anthropicResolveThink(req, overrides.think),
     options |-> anthropicOptions(req, overrides.options)]

\* Request bodies and model overrides.  An option's value names the place it
\* was supplied in: 1 override, 2 extra_body, 3 request options, 4..6 named fields.
ThinkValues == {Undefined, JTrue, JFalse, "low", "medium", "high", "minimal", "banana"}
EffortValues == {Undefined, "minimal", "low", "high", "banana"}
ReasoningValues ==
    {NoReasoning} \cup
    [present : {TRUE}, enabled : {Undefined, JTrue, JFalse},
     effort : {Undefined, "minimal", "medium", "banana"}]

OpenAIPlainRequest ==
    [think |-> Undefined, reasoning_effort |-> Undefined, reasoning |-> NoReasoning,
     options |-> EmptyBag, extra_body_options |-> EmptyBag,
     temperature |-> Absent, max_tokens |-> Absent, top_p |-> Absent,
     frequency_penalty |-> Absent, presence_penalty |-> Absent,
     num_ctx |-> Absent, num_predict |-> Absent]

\* Requests that vary the reasoning directives.
OpenAIThinkRequests ==
    { [OpenAIPlainRequest EXCEPT !.think = t, !.reasoning_effort = e, !.reasoning = r] :
        t \in ThinkValues, e \in EffortValues, r \in ReasoningValues }

\* Requests that vary the sampling parameters.
OpenAISamplingRequests ==
    { [OpenAIPlainRequest EXCEPT
          !.options = ob, !.extra_body_options = eb,
          !.temperature = IF "temperature" \in named THEN 4 ELSE Absent,
          !.max_tokens = IF "max_tokens" \in named THEN 5 ELSE Absent,
          !.num_predict = IF "num_predict" \in named THEN 6 ELSE Absent,
          !.num_ctx = IF "num_ctx" \in named THEN 4 ELSE Absent,
          !.top_p = IF "penalties" \in named THEN 4 ELSE Absent,
          !.frequency_penalty = IF "penalties" \in named THEN 4 ELSE Absent,
          !.presence_penalty = IF "penalties" \in named THEN 4 ELSE Absent] :
        ob \in BagsOver({"temperature", "custom"}, 3),
        eb \in BagsOver({"temperature", "custom"}, 2),
        named \in SUBSET {"temperature", "max_tokens", "num_predict", "num_ctx", "penalties"} }

\* Model overrides that vary think, and overrides that vary the options.
OverrideThinks == {Undefined, JTrue, JFalse, "low"}
ThinkOverrides ==
    [think : OverrideThinks,
     options : {EmptyBag, [EmptyBag EXCEPT !["temperature"] = 1]}]
OptionOverrides ==
    [think : {Undefined, JTrue},
     options : BagsOver({"temperature", "num_predict", "num_ctx", "custom"}, 1)]

AnthropicPlainRequest ==
    [thinking |-> Undefined, extra_body_think |-> Undefined,
     temperature |-> Absent, max_tokens |-> Absent, max_output_tokens |-> Absent,
     top_p |-> Absent, top_k |-> Absent, presence_penalty |-> Absent,
     frequency_penalty |-> Absent, stop_sequences |-> Absent,
     extra_body_ollama_options |-> EmptyBag, extra_body_passthrough |-> EmptyBag,
     metadata_user_id |-> Absent]

AnthropicThinkRequests ==
    { [AnthropicPlainRequest EXCEPT !.thinking = t, !.extra_body_think = et] :
        t \in ThinkValues \cup {"HIGH", JObject},
        et \in {Undefined, JTrue, "medium", "banana"} }

AnthropicSamplingRequests ==
    { [AnthropicPlainRequest EXCEPT
          !.temperature = IF "temperature" \in named THEN 4 ELSE Absent,
          !.max_tokens = IF "max_tokens" \in named THEN 5 ELSE Absent,
          !.max_output_tokens = IF "max_output_tokens" \in named THEN 6 ELSE Absent,
          !.top_p = IF "others" \in named THEN 4 ELSE Absent,
          !.top_k = IF "others" \in named THEN 4 ELSE Absent,
          !.presence_penalty = IF "others" \in named THEN 4 ELSE Absent,
          !.frequency_penalty = IF "others" \in named THEN 4 ELSE Absent,
          !.stop_sequences = IF "others" \in named THEN 4 ELSE Absent,
          !.metadata_user_id = IF "others" \in named THEN 4 ELSE Absent,
          !.extra_body_ollama_options = oo, !.extra_body_passthrough = pt] :
        named \in SUBSET {"temperature", "max_tokens", "max_output_tokens", "others"},
        oo \in BagsOver({"temperature"}, 2),
        pt \in BagsOver({"custom"}, 3) }

NoOllamaRequest == [error |-> FALSE, think |-> Undefined, options |-> EmptyBag]

Received(dialect, req, ov, allow) ==
    [dialect |-> dialect, request |-> req, overrides |-> ov,
     allowUnverified |-> allow, phase |-> "received", ollamaRequest |-> NoOllamaRequest]

\* A gated request has arrived, with the overrides configured for its model.
InitNormalize ==
    /\ \/ \E req \in OpenAIThinkRequests : \E ov \in ThinkOverrides : \E allow \in BOOLEAN :
            nrm = Received("openai", req, ov, allow)
       \/ \E req \in OpenAISamplingRequests : \E ov \in OptionOverrides : \E allow \in BOOLEAN :
            nrm = Received("openai", req, ov, allow)
       \/ \E req \in AnthropicThinkRequests : \E ov \in ThinkOverrides :
            nrm = Received("anthropic", req, ov, TRUE)
       \/ \E req \in AnthropicSamplingRequests : \E ov \in OptionOverrides :
            \E allow \in BOOLEAN : nrm = Received("anthropic", req, ov, allow)
    /\ anth = Idle
    /\ oai = Idle
    /\ ndj = Idle
    /\ gate = Idle
    /\ conc = Idle
    /\ tmo = Idle
    /\ san = Idle
    /\ lg = Idle
    /\ mdl = Idle

\* POST /chat/completions up to the backend call: normalize, or fall to the catch.
NormalizeOpenAI ==
    /\ nrm.dialect = "openai"
    /\ nrm.phase = "received"
    /\ LET r == convertToOllamaRequest(nrm.request, nrm.overrides, nrm.allowUnverified)
       IN nrm' = [nrm EXCEPT !.ollamaRequest = r,
                             !.phase = IF r.error THEN "rejected" ELSE "normalized"]
    /\ UNCHANGED <<anth, oai, ndj, gate, conc, tmo, san, lg, mdl>>

\* POST /messages up to the backend call.
NormalizeAnthropic ==
    /\ nrm.dialect = "anthropic"
    /\ nrm.phase = "received"
    /\ LET r == convertAnthropicToOllamaRequest(nrm.request, nrm.overrides)
       IN nrm' = [nrm EXCEPT !.ollamaRequest = r, !.phase = "normalized"]
    /\ UNCHANGED <<anth, oai, ndj, gate, conc, tmo, san, lg, mdl>>

\* axios.post(`${ollamaUrl}/api/chat`, ollamaRequest, ...)
ForwardToBackend ==
    /\ nrm.phase = "normalized"
    /\ nrm' = [nrm EXCEPT !.phase = "forwarded"]
    /\ UNCHANGED <<anth, oai, ndj, gate, conc, tmo, san, lg, mdl>>

NextNormalize == NormalizeOpenAI \/ NormalizeAnthropic \/ ForwardToBackend

SpecNormalize == InitNormalize /\ [][NextNormalize]_vars

\* =============================================== Request gate and error mapper
\* A model name is the sequence of its ':'-separated segments: "llama3:latest"
\* is <<"llama3", "latest">>, the empty string is <<>>.
Latest == "latest"
Star == <<"*">>
BaseNames == { <<"llama2">>, <<"llama3">> }
TaggedNames == { b \o <<t>> : b \in BaseNames, t \in {Latest, "8b"} }
ModelNames == BaseNames \cup TaggedNames

endsWithLatest(name) == Len(name) >= 2 /\ name[Len(name)] = Latest
sliceLatest(name) == SubSeq(name, 1, Len(name) - 1)
includesColon(name) == Len(name) >= 2
appendLatest(name) == Append(name, Latest)

\* text.includes(sub), on texts held as sequences of words.
includes(text, sub) ==
    \E i \in 1..(Len(text) - Len(sub) + 1) : SubSeq(text, i, i + Len(sub) - 1) = sub

\* ---- requests
\* The Authorization header: "" for none, else its scheme and the rest.
NoAuthorization == [scheme |-> "", token |-> ""]
AuthorizationHeaders ==
    {NoAuthorization} \cup [scheme : {"Bearer", "Basic"}, token : {"k1", "bad"}]
XApiKeyHeaders == {Undefined, "k1"}

\* body.model: its text and whether whitespace surrounds it.
BodyModels ==
    [pad : {FALSE}, name : ModelNames \cup {<<>>}]
        \cup [pad : {TRUE}, name : {<<>>, <<"llama3">>}]

\* body.messages: an array, missing, a string, or a plain object.
JArray == "<array>"
JString == "<string>"
BodyMessages == {JArray, Undefined, JString, JObject}

GateRequests ==
    [dialect : {"openai", "anthropic"}, authorization : AuthorizationHeaders,
     xApiKey : XApiKeyHeaders, model : BodyModels, messages : BodyMessages]

NoRequest ==
    [dialect |-> "", authorization |-> NoAuthorization, xApiKey |-> Undefined,
     model |-> [pad |-> FALSE, name |-> <<>>], messages |-> Undefined]

\* ---- configuration
ApiKeyValues == {"k1"}
AllowLists == {l \in SUBSET (ModelNames \cup {Star}) : Cardinality(l) <= 2}
ConfigModels == {ModelNames, { <<"llama3", Latest>> }}

\* config.findApiKey(keyValue)
findApiKey(keyValue) == keyValue \in ApiKeyValues

\* getModelMapping(requestedName), for models whose display name is their
\* original name; <<>> when none matches.
getModelMapping(models, requestedName) ==
    IF requestedName \in models THEN requestedName
    ELSE IF ~includesColon(requestedName) /\ appendLatest(requestedName) \in models
    THEN appendLatest(requestedName)
    ELSE <<>>

\* ---- responses
Response(status, type, code) == [status |-> status, type |-> type, code |-> code]
NoResponse == Response(0, "", "")
Success == Response(200, "", "")
\* The mapper throws instead of returning.
Unhandled == Response(0, "unhandled_exception", "")

respond(g, r) ==
    [g EXCEPT !.phase = "responded", !.response = r, !.responsesSent = @ + 1]

\* ---- backend outcomes
BackendStatuses == {400, 401, 403, 404, 429, 500, 501, 502, 503, 504}
ErrorTexts ==
    { <<"model", "llama9", "not", "found">>, <<"file", "not", "found">>,
      <<"model", "requires", "more", "memory">>, <<"invalid", "json">> }
NoBody == [shape |-> "none", text |-> <<>>]
\* error.response.data: nothing readable, {error: "..."} or {error: {message: "..."}}
ErrorBodies == {NoBody} \cup [shape : {"errorString", "errorObject"}, text : ErrorTexts]

HttpErrors ==
    [hasResponse : {TRUE}, status : BackendStatuses, data : ErrorBodies,
     code : {"ERR_BAD_RESPONSE"}, message : { <<"Request", "failed", "with", "status", "code">> }]
TransportError(code, message) ==
    [hasResponse |-> FALSE, status |-> 0, data |-> NoBody, code |-> code, message |-> message]
TransportErrors ==
    { TransportError("ECONNREFUSED", <<"connect", "ECONNREFUSED">>),
      TransportError("ENOTFOUND", <<"getaddrinfo", "ENOTFOUND">>),
      TransportError("ETIMEDOUT", <<"connect", "ETIMEDOUT">>),
      TransportError("ECONNABORTED", <<"timeout", "of", "ms", "exceeded">>),
      TransportError("ECONNRESET", <<"socket", "hang", "up">>) }
\* "Cannot read properties of undefined (reading 'map')" and the like.
TypeError == TransportError(Undefined, <<"Cannot", "read", "properties", "of", "undefined">>)
NoError == TransportError("", <<>>)

\* extractOllamaErrorMessage(data, error.message || 'Bad request')
extractOllamaErrorMessage(data, fallback) ==
    IF data.shape = "none" THEN fallback ELSE data.text

mapTransportError_refusedIsGeneric(error) ==
    IF error.code = "ETIMEDOUT" \/ includes(error.message, <<"timeout">>)
    THEN Response(504, "timeout_error", "timeout")
    ELSE Response(500, "server_error", "internal_error")

\* The tail of both mappers: errors without an HTTP response.
mapTransportError(error) ==
    IF error.code \in {"ECONNREFUSED", "ENOTFOUND"}
    THEN Response(503, "service_unavailable_error", "service_unavailable")
    ELSE IF error.code = "ETIMEDOUT" \/ includes(error.message, <<"timeout">>)
    THEN Response(504, "timeout_error", "timeout")
    ELSE Response(500, "server_error", "internal_error")

\* case 404 of both mappers: data?.error?.includes('model') || error.message?.includes('model')
mapNotFound(error) ==
    IF error.data.shape = "errorObject" THEN Unhandled
    ELSE IF \/ error.data.shape = "errorString" /\ includes(error.data.text, <<"model">>)
            \/ includes(error.message, <<"model">>)
    THEN Response(404, "invalid_request_error", "model_not_found")
    ELSE Response(404, "invalid_request_error", "not_found")

createOpenAIError(error) ==
    IF error.hasResponse
    THEN LET errorMessage == extractOllamaErrorMessage(error.data, error.message)
         IN CASE error.status = 400 ->
                   IF includes(errorMessage, <<"model">>) \/ includes(errorMessage, <<"not", "found">>)
                   THEN Response(404, "invalid_request_error", "model_not_found")
                   ELSE Response(400, "invalid_request_error", "invalid_request")
              [] error.status = 401 -> Response(401, "authentication_error", "unauthorized")
              [] error.status = 404 -> mapNotFound(error)
              [] error.status = 429 -> Response(429, "rate_limit_error", "rate_limit_exceeded")
              [] error.status \in {500, 502, 503, 504} ->
                   Response(500, "server_error", "server_error")
              [] OTHER -> Response(error.status, "server_error", "unknown_error")
    ELSE mapTransportError(error)

createAnthropicError(error) ==
    IF error.hasResponse
    THEN CASE error.status = 400 ->
                \* data?.error?.code || 'invalid_request': the backend bodies carry no code
                Response(400, "invalid_request_error", "invalid_request")
           [] error.status = 401 -> Response(401, "authentication_error", "invalid_api_key")
           [] error.status = 403 -> Response(403, "permission_error", "forbidden")
           [] error.status = 404 -> mapNotFound(error)
           [] error.status = 429 -> Response(429, "rate_limit_error", "rate_limit_exceeded")
           [] error.status \in {500, 502, 503, 504} ->
                Response(500, "server_error", "server_error")
           [] OTHER -> Response(error.status, "server_error", "unknown_error")
    ELSE mapTransportError(error)

\* ---- middleware
\* (req.body.model || req.query.model || '').trim()
trimModel(model) == model.name

\* config.updateApiKeyUsage(req.apiKey): usageCount++ and lastUsed of the key.
updateApiKeyUsage(g) ==
    IF findApiKey(g.apiKey) THEN [g EXCEPT !.usageCount = @ + 1] ELSE g

\* logRequestWithTokens at the end of a non-streamed request: one record more.
logRecord(g) == [g EXCEPT !.logRecords = @ + 1]

\* Variant: the key's usage is counted as soon as the key is recognised.
validateApiKey_countsUsage(g) ==
    IF g.request.authorization.scheme /= "Bearer"
    THEN respond(g, Response(401, "authentication_error", "missing_api_key"))
    ELSE IF ~findApiKey(g.request.authorization.token)
    THEN respond(g, Response(401, "authentication_error", "invalid_api_key"))
    ELSE updateApiKeyUsage([g EXCEPT !.apiKey = g.request.authorization.token,
                                     !.phase = "authenticated"])

\* validateApiKey (the same code in both routers): only a Bearer Authorization
\* header is read.
validateApiKey(g) ==
    IF g.request.authorization.scheme /= "Bearer"
    THEN respond(g, Response(401, "authentication_error", "missing_api_key"))
    ELSE IF ~findApiKey(g.request.authorization.token)
    THEN respond(g, Response(401, "authentication_error", "invalid_api_key"))
    ELSE [g EXCEPT !.apiKey = g.request.authorization.token, !.phase = "authenticated"]

hasAccess_exactOnly(allowedModels, requestedModel) ==
    \/ Star \in allowedModels
    \/ requestedModel \in allowedModels

hasAccess(allowedModels, requestedModel) ==
    \/ Star \in allowedModels
    \/ requestedModel \in allowedModels
    \/ endsWithLatest(requestedModel) /\ sliceLatest(requestedModel) \in allowedModels
    \/ ~includesColon(requestedModel) /\ appendLatest(requestedModel) \in allowedModels

checkModelAccess_grantsAll(g) ==
    LET requestedModel == trimModel(g.request.model)
    IN IF requestedModel = <<>>
       THEN respond(g, Response(400, "invalid_request_error", "missing_model"))
       ELSE [g EXCEPT !.requestedModel = requestedModel, !.phase = "authorized"]

\* checkModelAccess (the same code in both routers); trim() drops the padding.
checkModelAccess(g) ==
    LET requestedModel == trimModel(g.request.model)
    IN IF requestedModel = <<>>
       THEN respond(g, Response(400, "invalid_request_error", "missing_model"))
       ELSE IF ~hasAccess(g.allowedModels, requestedModel)
       THEN respond(g, Response(403, "permission_error", "model_access_denied"))
       ELSE [g EXCEPT !.requestedModel = requestedModel, !.phase = "authorized"]

\* axios.post(`${ollamaUrl}/api/chat`, ollamaRequest, ...) is issued.
forward(g) ==
    [g EXCEPT !.forwarded = TRUE, !.phase = "awaiting", !.backendCalls = @ + 1]

\* POST /chat/completions from its first line to the backend call; an
\* exception thrown by convertToOllamaRequest lands in the route's catch.
openaiHandle(g) ==
    LET used == updateApiKeyUsage(g)
        trimmedModel == g.requestedModel
        modelMapping == getModelMapping(g.models, trimmedModel)
        actualModel == IF modelMapping /= <<>> THEN modelMapping ELSE trimmedModel
        modelExists == actualModel \in g.models \/ trimmedModel \in g.models
    IN IF ~modelExists
       THEN respond(used, Response(404, "invalid_request_error", "model_not_found"))
       ELSE IF g.request.messages /= JArray
       THEN respond(logRecord(used), createOpenAIError(TypeError))
       ELSE forward(used)

\* POST /messages from its first line to the backend call.
anthropicHandle(g) ==
    IF g.request.messages /= JArray
    THEN respond(g, Response(400, "invalid_request_error", "missing_messages"))
    ELSE forward(updateApiKeyUsage(g))

\* ---- the specification
GateInitState(allowedModels, models) ==
    [phase |-> "idle", request |-> NoRequest, allowedModels |-> allowedModels,
     models |-> models, apiKey |-> "", requestedModel |-> <<>>,
     forwarded |-> FALSE, error |-> NoError, response |-> NoResponse,
     backendCalls |-> 0, responsesSent |-> 0, usageCount |-> 0, logRecords |-> 0]

\* The configuration is loaded: one API key "k1" with its allow-list.
InitGate ==
    /\ \E l \in AllowLists : \E m \in ConfigModels : gate = GateInitState(l, m)
    /\ anth = Idle
    /\ oai = Idle
    /\ ndj = Idle
    /\ nrm = Idle
    /\ conc = Idle
    /\ tmo = Idle
    /\ san = Idle
    /\ lg = Idle
    /\ mdl = Idle

GateReceive(req) ==
    /\ gate.phase = "idle"
    /\ gate' = [gate EXCEPT !.request = req, !.phase = "received"]
    /\ UNCHANGED <<anth, oai, ndj, nrm, conc, tmo, san, lg, mdl>>

GateValidateApiKey ==
    /\ gate.phase = "received"
    /\ gate' = validateApiKey(gate)
    /\ UNCHANGED <<anth, oai, ndj, nrm, conc, tmo, san, lg, mdl>>

GateCheckModelAccess ==
    /\ gate.phase = "authenticated"
    /\ gate' = checkModelAccess(gate)
    /\ UNCHANGED <<anth, oai, ndj, nrm, conc, tmo, san, lg, mdl>>

GateHandleOpenAI ==
    /\ gate.phase = "authorized"
    /\ gate.request.dialect = "openai"
    /\ gate' = openaiHandle(gate)
    /\ UNCHANGED <<anth, oai, ndj, nrm, conc, tmo, san, lg, mdl>>

GateHandleAnthropic ==
    /\ gate.phase = "authorized"
    /\ gate.request.dialect = "anthropic"
    /\ gate' = anthropicHandle(gate)
    /\ UNCHANGED <<anth, oai, ndj, nrm, conc, tmo, san, lg, mdl>>

\* The backend call resolves.
GateBackendSuccess ==
    /\ gate.phase = "awaiting"
    /\ gate' = respond(logRecord(gate), Success)
    /\ UNCHANGED <<anth, oai, ndj, nrm, conc, tmo, san, lg, mdl>>

\* The backend call rejects: the route's catch maps the error and answers.  An
\* exception thrown by the mapper leaves the async handler: either nothing is
\* answered, or the application's error handler answers 500.
GateBackendError(error) ==
    /\ gate.phase = "awaiting"
    /\ LET g == logRecord([gate EXCEPT !.error = error])
           mapped == IF gate.request.dialect = "openai"
                     THEN createOpenAIError(error)
                     ELSE createAnthropicError(error)
       IN IF mapped = Unhandled
          THEN \/ gate' = [g EXCEPT !.phase = "unhandled"]
               \/ gate' = respond(g, Response(500, "", ""))
          ELSE gate' = respond(g, mapped)
    /\ UNCHANGED <<anth, oai, ndj, nrm, conc, tmo, san, lg, mdl>>

NextGate ==
    \/ \E req \in GateRequests : GateReceive(req)
    \/ GateValidateApiKey
    \/ GateCheckModelAccess
    \/ GateHandleOpenAI
    \/ GateHandleAnthropic
    \/ GateBackendSuccess
    \/ \E error \in HttpErrors \cup TransportErrors : GateBackendError(error)

SpecGate == InitGate /\ [][NextGate]_vars

\* ====================================================== Reasoning suppression
MaxReasoningLines == 2

\* parseBoolean(value): undefined for undefined/null, else a boolean.
parseBoolean(value) ==
    IF value \in {Undefined, Null} THEN Undefined
    ELSE IF value \in {JTrue, JFalse} THEN value
    ELSE IF value \in {"true", "1", "yes", "on"} THEN JTrue
    ELSE IF value \in {"false", "0", "no", "off"} THEN JFalse
    ELSE IF value = "" THEN JFalse ELSE JTrue

extractReasoningPreferences_overrideFirst(openaiRequest, overrides) ==
    LET overrideExclude == parseBoolean(overrides.exclude_reasoning)
        requestExclude == parseBoolean(openaiRequest.exclude_reasoning)
    IN IF overrideExclude /= Undefined
       THEN [hasReasoningRequest |-> FALSE, shouldIncludeReasoning |-> overrideExclude = JFalse]
       ELSE IF openaiRequest.reasoning.present
       THEN [hasReasoningRequest |-> TRUE,
             shouldIncludeReasoning |-> openaiRequest.reasoning.exclude /= JTrue]
       ELSE IF requestExclude /= Undefined
       THEN [hasReasoningRequest |-> TRUE, shouldIncludeReasoning |-> requestExclude = JFalse]
       ELSE [hasReasoningRequest |-> FALSE, shouldIncludeReasoning |-> TRUE]

extractReasoningPreferences(openaiRequest, overrides) ==
    LET overrideExclude == parseBoolean(overrides.exclude_reasoning)
        requestExclude == parseBoolean(openaiRequest.exclude_reasoning)
    IN IF openaiRequest.reasoning.present
       THEN [hasReasoningRequest |-> TRUE,
             shouldIncludeReasoning |-> openaiRequest.reasoning.exclude /= JTrue]
       ELSE IF requestExclude /= Undefined
       THEN [hasReasoningRequest |-> TRUE, shouldIncludeReasoning |-> requestExclude = JFalse]
       ELSE IF overrideExclude /= Undefined
       THEN [hasReasoningRequest |-> FALSE, shouldIncludeReasoning |-> overrideExclude = JFalse]
       ELSE [hasReasoningRequest |-> FALSE, shouldIncludeReasoning |-> TRUE]

\* The message of a chat.completion built by convertToOpenAIResponse.
Message(content, reasoning_content) ==
    [kind |-> "message",
     delta |-> [EmptyDelta EXCEPT !.role = "assistant", !.content = content,
                                  !.reasoning_content = reasoning_content],
     finish_reason |-> "stop", usage |-> NoUsage]

convertToOpenAIResponse(data, shouldIncludeReasoning) ==
    LET content == IF Truthy(data.content) THEN data.content ELSE ""
        thinking == IF Truthy(data.thinking) THEN data.thinking ELSE ""
    IN Message(content,
               IF Truthy(thinking) /\ shouldIncludeReasoning THEN thinking ELSE Undefined)

\* Requests and overrides: the fields read by extractReasoningPreferences.
ReasoningObjects ==
    {[present |-> FALSE, exclude |-> Undefined]}
        \cup [present : {TRUE}, exclude : {Undefined, JTrue, JFalse}]
ReasoningRequests ==
    [reasoning : ReasoningObjects, exclude_reasoning : {Undefined, JTrue, JFalse, "off", "banana"}]
ReasoningOverrides == [exclude_reasoning : {Undefined, JTrue, JFalse, "yes"}]

ReasoningEvents ==
    { [NoData EXCEPT !.content = c, !.thinking = t, !.done = dn] :
          c \in {Undefined, "c1"}, t \in {Undefined, "t1"}, dn \in BOOLEAN }

\* POST /chat/completions has stored req.reasoningPreferences and sent the
\* request to the backend.
InitReasoning ==
    /\ \E req \in ReasoningRequests : \E ov \in ReasoningOverrides : \E wantsStream \in BOOLEAN :
          oai = OpenAIInitState(extractReasoningPreferences(req, ov).shouldIncludeReasoning)
                   @@ [request |-> req, overrides |-> ov, wantsStream |-> wantsStream,
                       thinkingLines |-> 0]
    /\ anth = Idle
    /\ ndj = Idle
    /\ nrm = Idle
    /\ gate = Idle
    /\ conc = Idle
    /\ tmo = Idle
    /\ san = Idle
    /\ lg = Idle
    /\ mdl = Idle

\* One line of a streamed response reaches the callback.
ReasoningData(data) ==
    /\ oai.wantsStream
    /\ oai.received < MaxReasoningLines
    /\ ~oai.doneSeen
    /\ oai' = [openaiOnObject(oai, data) EXCEPT
                  !.received = @ + 1,
                  !.doneSeen = data.done,
                  !.thinkingLines = IF Truthy(data.thinking) THEN @ + 1 ELSE @]
    /\ UNCHANGED <<anth, ndj, nrm, gate, conc, tmo, san, lg, mdl>>

\* The final JSON object of a non-streamed response is converted and sent.
ReasoningJson(data) ==
    /\ ~oai.wantsStream
    /\ ~oai.resEnded
    /\ LET fullResponse == IF Truthy(data.content) THEN data.content ELSE ""
           fullThinking == IF Truthy(data.thinking) THEN data.thinking ELSE ""
           s1 == [oai EXCEPT !.responseContent = fullResponse,
                             !.thinkingContent = fullThinking,
                             !.thinkingLines = IF Truthy(data.thinking) THEN 1 ELSE 0,
                             !.received = 1, !.doneSeen = TRUE]
           s2 == logRequest(s1, "success", 0, 0, 0)
           s3 == resWrite(s2, convertToOpenAIResponse(data, oai.shouldIncludeReasoning))
       IN oai' = [s3 EXCEPT !.resEnded = TRUE]
    /\ UNCHANGED <<anth, ndj, nrm, gate, conc, tmo, san, lg, mdl>>

NextReasoning ==
    \/ \E data \in ReasoningEvents : ReasoningData(data)
    \/ \E data \in ReasoningEvents : ReasoningJson(data)

SpecReasoning == InitReasoning /\ [][NextReasoning]_vars

\* ================================================ Concurrent streamed requests
\* Each call of a stream handler creates its own closure variables; the
\* backend lines of two requests in flight reach their callbacks in any order.
MaxConcurrentLines == 2

RequestIds == {"r1", "r2"}
Dialects == {"openai", "anthropic"}

\* Backend lines fed to the concurrent requests.
ConcurrentEvents ==
    { [NoData EXCEPT !.thinking = "t1"],
      [NoData EXCEPT !.content = "c1"],
      [NoData EXCEPT !.content = "c1", !.thinking = "t1"],
      [NoData EXCEPT !.tool_calls = ToolCallArray(<<[name |-> "f"]>>)],
      [NoData EXCEPT !.done = TRUE],
      [NoData EXCEPT !.prompt_eval_count = 3, !.eval_count = 2, !.done = TRUE] }

\* The closure variables a handler call starts with.
newTranslatorState(dialect) ==
    IF dialect = "anthropic" THEN AnthropicInitState ELSE OpenAIInitState(TRUE)

\* The parser callback of the request's dialect.
translate(dialect, st, data) ==
    IF dialect = "anthropic" THEN anthropicOnObject(st, data) ELSE openaiOnObject(st, data)

InitConcurrent ==
    /\ \E d \in [RequestIds -> Dialects] :
          conc = [dialect |-> d,
                  translator |-> [r \in RequestIds |-> newTranslatorState(d[r])],
                  delivered |-> [r \in RequestIds |-> <<>>]]
    /\ anth = Idle
    /\ oai = Idle
    /\ ndj = Idle
    /\ nrm = Idle
    /\ gate = Idle
    /\ tmo = Idle
    /\ san = Idle
    /\ lg = Idle
    /\ mdl = Idle

\* Variant: the closure variables are module-level, shared by the requests of a
\* dialect.
ConcurrentData_sharedState(r, data) ==
    /\ Len(conc.delivered[r]) < MaxConcurrentLines
    /\ ~conc.translator[r].streamDestroyed
    /\ LET other == CHOOSE q \in RequestIds : q /= r
           shared == IF conc.dialect[other] = conc.dialect[r]
                     THEN [conc.translator[other] EXCEPT
                              !.wire = conc.translator[r].wire,
                              !.resEnded = conc.translator[r].resEnded,
                              !.headersSent = conc.translator[r].headersSent,
                              !.clientClosed = conc.translator[r].clientClosed,
                              !.streamDestroyed = conc.translator[r].streamDestroyed]
                     ELSE conc.translator[r]
           next == translate(conc.dialect[r], shared, data)
       IN conc' = [conc EXCEPT
                      !.translator = [q \in RequestIds |->
                           IF q = r \/ conc.dialect[q] /= conc.dialect[r] THEN
                              IF q = r THEN next ELSE conc.translator[q]
                           ELSE [next EXCEPT
                                    !.wire = conc.translator[q].wire,
                                    !.resEnded = conc.translator[q].resEnded,
                                    !.headersSent = conc.translator[q].headersSent,
                                    !.clientClosed = conc.translator[q].clientClosed,
                                    !.streamDestroyed = conc.translator[q].streamDestroyed]],
                      !.delivered[r] = Append(@, data)]
    /\ UNCHANGED <<anth, oai, ndj, nrm, gate, tmo, san, lg, mdl>>

\* The backend stream of request r delivers one line to r's callback.
ConcurrentData(r, data) ==
    /\ Len(conc.delivered[r]) < MaxConcurrentLines
    /\ ~conc.translator[r].streamDestroyed
    /\ conc' = [conc EXCEPT
                   !.translator[r] = translate(conc.dialect[r], @, data),
                   !.delivered[r] = Append(@, data)]
    /\ UNCHANGED <<anth, oai, ndj, nrm, gate, tmo, san, lg, mdl>>

\* The client of request r goes away: r's backend stream is destroyed.
ConcurrentClientClose(r) ==
    /\ ~conc.translator[r].clientClosed
    /\ conc' = [conc EXCEPT !.translator[r].clientClosed = TRUE,
                            !.translator[r].streamDestroyed = TRUE]
    /\ UNCHANGED <<anth, oai, ndj, nrm, gate, tmo, san, lg, mdl>>

NextConcurrent ==
    \/ \E r \in RequestIds : \E data \in ConcurrentEvents : ConcurrentData(r, data)
    \/ \E r \in RequestIds : ConcurrentClientClose(r)

SpecConcurrent == InitConcurrent /\ [][NextConcurrent]_vars

\* ============================================================ Request timeout
\* The value found at one candidate location: absent, null, a value that
\* Number() turns into NaN or Infinity, or one that it turns into a finite n.
JUndefined == [kind |-> "undefined", n |-> 0]
JNull == [kind |-> "null", n |-> 0]
JNaN == [kind |-> "NaN", n |-> 0]
JInfinity == [kind |-> "Infinity", n |-> 0]
JNumber(n) == [kind |-> "number", n |-> n]

\* Number.isFinite(Number(value))
isFinite(value) == value.kind = "number"

\* normalizeTimeoutValue (the same text in both routers); Absent is undefined.
normalizeTimeoutValue(value) ==
    IF value.kind \in {"undefined", "null"} THEN Absent
    ELSE IF ~isFinite(value) THEN Absent
    ELSE IF value.n <= 0 THEN 0
    ELSE value.n

\* The places a timeout is read from, and the property names read at each.
TimeoutLocations == {"root", "metadata", "extra_body", "overrides", "config"}
TimeoutNames == {"timeout", "timeout_ms", "timeoutMs", "request_timeout", "requestTimeout"}

\* candidateTimeouts of resolveOpenAIRequestTimeout, in the order of the array.
openaiCandidateTimeouts ==
    << <<"root", "timeout">>, <<"root", "timeout_ms">>, <<"root", "timeoutMs">>,
       <<"root", "request_timeout">>, <<"root", "requestTimeout">>,
       <<"metadata", "timeout">>, <<"metadata", "timeout_ms">>, <<"metadata", "timeoutMs">>,
       <<"metadata", "request_timeout">>, <<"metadata", "requestTimeout">>,
       <<"extra_body", "timeout">>, <<"extra_body", "timeout_ms">>, <<"extra_body", "timeoutMs">>,
       <<"extra_body", "request_timeout">>, <<"extra_body", "requestTimeout">>,
       <<"overrides", "timeout">>, <<"overrides", "timeout_ms">>, <<"overrides", "timeoutMs">>,
       <<"overrides", "request_timeout">>, <<"overrides", "requestTimeout">>,
       <<"config", "requestTimeout">> >>

\* candidateTimeouts of resolveRequestTimeout, in the order of the array.
anthropicCandidateTimeouts ==
    << <<"overrides", "timeout">>, <<"overrides", "timeout_ms">>, <<"overrides", "timeoutMs">>,
       <<"overrides", "request_timeout">>, <<"overrides", "requestTimeout">>,
       <<"root", "timeout_ms">>, <<"root", "timeoutMs">>, <<"root", "timeout">>,
       <<"root", "request_timeout">>, <<"root", "requestTimeout">>,
       <<"metadata", "timeout_ms">>, <<"metadata", "timeoutMs">>, <<"metadata", "timeout">>,
       <<"metadata", "request_timeout">>, <<"metadata", "requestTimeout">>,
       <<"extra_body", "timeout_ms">>, <<"extra_body", "timeoutMs">>, <<"extra_body", "timeout">>,
       <<"extra_body", "request_timeout">>, <<"extra_body", "requestTimeout">>,
       <<"config", "requestTimeout">> >>

\* for (const value of candidateTimeouts): the first normalized value, from
\* candidate i on, that is not undefined.
RECURSIVE firstNormalized(_, _, _)
firstNormalized(candidateTimeouts, supplied, i) ==
    IF i > Len(candidateTimeouts) THEN Absent
    ELSE LET value == supplied[candidateTimeouts[i][1]][candidateTimeouts[i][2]]
             normalized == normalizeTimeoutValue(value)
         IN IF normalized /= Absent THEN normalized
            ELSE firstNormalized(candidateTimeouts, supplied, i + 1)

\* resolveOpenAIRequestTimeout: undefined when no candidate qualifies.
resolveOpenAIRequestTimeout(supplied) ==
    firstNormalized(openaiCandidateTimeouts, supplied, 1)

\* resolveRequestTimeout: 0 when no candidate qualifies.
resolveRequestTimeout(supplied) ==
    LET normalized == firstNormalized(anthropicCandidateTimeouts, supplied, 1)
    IN IF normalized = Absent THEN 0 ELSE normalized

\* timeout: requestTimeout !== undefined ? requestTimeout : 120000
DefaultOpenAITimeout == 120000

\* Nothing is supplied anywhere.
NothingSupplied == [l \in TimeoutLocations |-> [name \in TimeoutNames |-> JUndefined]]

\* The values tried at a location; its positive value tells the locations apart.
TimeoutValues(positive) ==
    {JUndefined, JNull, JNaN, JInfinity, JNumber(-5), JNumber(0), JNumber(positive)}

\* What the request, the model's overrides and the configuration supply: one
\* property at each location, and a second property at the root.
SuppliedTimeouts ==
    { [NothingSupplied EXCEPT
          !["root"]["timeout"] = r, !["root"]["timeout_ms"] = r2,
          !["metadata"]["timeout_ms"] = m, !["extra_body"]["request_timeout"] = e,
          !["overrides"]["timeoutMs"] = o, !["config"]["requestTimeout"] = c] :
        r \in TimeoutValues(1000), r2 \in {JUndefined, JNumber(1500)},
        m \in {JUndefined, JNaN, JNumber(2000)},
        e \in {JUndefined, JNull, JNumber(3000)},
        o \in TimeoutValues(4000), c \in {JUndefined, JInfinity, JNumber(-5), JNumber(5000)} }

\* A request has passed the gate; the timeout of its backend call is not yet known.
InitTimeout ==
    /\ \E dialect \in Dialects : \E supplied \in SuppliedTimeouts :
          tmo = [dialect |-> dialect, supplied |-> supplied, phase |-> "received",
                 requestTimeout |-> Absent, axiosTimeout |-> Absent]
    /\ anth = Idle
    /\ oai = Idle
    /\ ndj = Idle
    /\ nrm = Idle
    /\ gate = Idle
    /\ conc = Idle
    /\ san = Idle
    /\ lg = Idle
    /\ mdl = Idle

\* const requestTimeout = resolveOpenAIRequestTimeout({ openaiRequest, overrides })
TimeoutResolveOpenAI ==
    /\ tmo.phase = "received"
    /\ tmo.dialect = "openai"
    /\ tmo' = [tmo EXCEPT !.requestTimeout = resolveOpenAIRequestTimeout(tmo.supplied),
                          !.phase = "resolved"]
    /\ UNCHANGED <<anth, oai, ndj, nrm, gate, conc, san, lg, mdl>>

\* const requestTimeout = resolveRequestTimeout({ wantsStream, overrides, anthropicRequest })
TimeoutResolveAnthropic ==
    /\ tmo.phase = "received"
    /\ tmo.dialect = "anthropic"
    /\ tmo' = [tmo EXCEPT !.requestTimeout = resolveRequestTimeout(tmo.supplied),
                          !.phase = "resolved"]
    /\ UNCHANGED <<anth, oai, ndj, nrm, gate, conc, san, lg, mdl>>

\* axios.post(..., { timeout: ... })
TimeoutPost ==
    /\ tmo.phase = "resolved"
    /\ tmo' = [tmo EXCEPT
          !.axiosTimeout = IF tmo.dialect = "openai" /\ tmo.requestTimeout = Absent
                           THEN DefaultOpenAITimeout ELSE tmo.requestTimeout,
          !.phase = "posted"]
    /\ UNCHANGED <<anth, oai, ndj, nrm, gate, conc, san, lg, mdl>>

NextTimeout == TimeoutResolveOpenAI \/ TimeoutResolveAnthropic \/ TimeoutPost

SpecTimeout == InitTimeout /\ [][NextTimeout]_vars

\* =========================================================== Option sanitizer
\* processOptions is called with whatever the request or the override holds
\* under "options"; warnedKeys lives as long as the process.
MaxSanitizerCalls == 3

\* `${key}:${allowUnverified ? 'allow' : 'block'}`
warningKey(key, allowUnverified) == <<key, IF allowUnverified THEN "allow" ELSE "block">>
WarningKeys == OptionKeys \X {"allow", "block"}

\* Variant: the key is logged without being remembered.
logOptionWarning_forgets(process, key, allowUnverified) ==
    [process EXCEPT !.warnings[warningKey(key, allowUnverified)] = @ + 1]

\* logOptionWarning: console.warn once per warning key.
logOptionWarning(process, key, allowUnverified) ==
    IF warningKey(key, allowUnverified) \in process.warnedKeys THEN process
    ELSE [process EXCEPT !.warnedKeys = @ \cup {warningKey(key, allowUnverified)},
                         !.warnings[warningKey(key, allowUnverified)] = @ + 1]

\* for (const key of Object.keys(sanitized)): the warnings of one call.
RECURSIVE logUnknownKeys(_, _, _)
logUnknownKeys(process, keys, allowUnverified) ==
    IF keys = {} THEN process
    ELSE LET key == CHOOSE k \in keys : TRUE
         IN logUnknownKeys(logOptionWarning(process, key, allowUnverified),
                           keys \ {key}, allowUnverified)

\* unknownKeys of processOptions
unknownKeysOf(options) == {k \in OptionKeys : options[k] /= Absent /\ k \notin knownOptionKeys}

\* What a caller passes: something that is no plain object, or an option bag.
NotAnObject == [object |-> FALSE, entries |-> EmptyBag]
SanitizerInputs ==
    {NotAnObject} \cup
    { [object |-> TRUE, entries |-> b] :
        b \in BagsOver({"temperature", "num_ctx", "user", "custom"}, 1) }

InitSanitizer ==
    /\ san = [warnedKeys |-> {}, warnings |-> [w \in WarningKeys |-> 0], calls |-> 0,
              caller |-> "none", given |-> NotAnObject, options |-> NotAnObject,
              allowUnverified |-> TRUE, sanitized |-> NotAnObject, unknownKeys |-> {}]
    /\ anth = Idle
    /\ oai = Idle
    /\ ndj = Idle
    /\ nrm = Idle
    /\ gate = Idle
    /\ conc = Idle
    /\ tmo = Idle
    /\ lg = Idle
    /\ mdl = Idle

\* One call of processOptions made while request r is converted: given is the
\* caller's object before the call, options the same object after it.
SanitizerCall(r, options, allowUnverified) ==
    /\ san.calls < MaxSanitizerCalls
    /\ LET called == [san EXCEPT !.calls = @ + 1, !.caller = r, !.given = options,
                                 !.options = options, !.allowUnverified = allowUnverified]
       IN IF ~options.object
          THEN san' = [called EXCEPT !.sanitized = NotAnObject, !.unknownKeys = {}]
          ELSE LET unknownKeys == unknownKeysOf(options.entries)
                   logged == logUnknownKeys(called, unknownKeys, allowUnverified)
               IN san' = [logged EXCEPT
                     !.sanitized = [object |-> TRUE,
                                    entries |-> processOptions(options.entries, allowUnverified)],
                     !.unknownKeys = unknownKeys]
    /\ UNCHANGED <<anth, oai, ndj, nrm, gate, conc, tmo, lg, mdl>>

NextSanitizer ==
    \E r \in RequestIds : \E options \in SanitizerInputs : \E allowUnverified \in BOOLEAN :
        SanitizerCall(r, options, allowUnverified)

SpecSanitizer == InitSanitizer /\ [][NextSanitizer]_vars

\* ================================================================ Usage log
\* Every request path ends with one call of logRequestWithTokens; the log is a
\* JSON file read and rewritten on every call.
MaxLoggedRequests == 2

\* What data/logs.json holds when it is read: nothing (no file), text that
\* cannot be read or parsed, a JSON array, or JSON that is not an array.
LogsFiles == {"missing", "unreadable", "array", "notArray"}

\* loadLogs: the parsed file, or [] when there is none or the read throws.
loadLogs(logsFile) == IF logsFile = "notArray" THEN "notArray" ELSE "array"

\* saveLogs: the write is inside try/catch; the file after the call.
saveLogs(logsFile, writeFails) == IF writeFails THEN logsFile ELSE "array"

\* addLog: loadLogs, logs.push (a TypeError on a value that is no array), saveLogs.
addLog(store) ==
    IF loadLogs(store.logsFile) /= "array"
    THEN [threw |-> TRUE, logsFile |-> store.logsFile, records |-> store.records]
    ELSE [threw |-> FALSE,
          logsFile |-> saveLogs(store.logsFile, store.writeFails),
          records |-> IF store.writeFails THEN store.records
                      ELSE IF store.logsFile = "array" THEN store.records + 1 ELSE 1]

\* logRequestWithTokens: config.addLog with nothing around it.
logRequestWithTokens(l) ==
    LET r == addLog([logsFile |-> l.logsFile, writeFails |-> l.writeFails, records |-> l.records])
    IN [l EXCEPT !.logsFile = r.logsFile, !.records = r.records, !.threw = r.threw]

\* The process has started; the log file is in one of its possible conditions.
InitLogging ==
    /\ \E logsFile \in LogsFiles : \E writeFails \in BOOLEAN :
          lg = [logsFile |-> logsFile, writeFails |-> writeFails,
                records |-> IF logsFile = "array" THEN 1 ELSE 0,
                handled |-> 0, dialect |-> "none", path |-> "none",
                threw |-> FALSE, response |-> "none"]
    /\ anth = Idle
    /\ oai = Idle
    /\ ndj = Idle
    /\ nrm = Idle
    /\ gate = Idle
    /\ conc = Idle
    /\ tmo = Idle
    /\ san = Idle
    /\ mdl = Idle

Handling(dialect, path) ==
    [lg EXCEPT !.handled = @ + 1, !.dialect = dialect, !.path = path,
               !.threw = FALSE, !.response = "none"]

\* The backend answered a non-streamed request: the record is logged, then
\* res.json; a throw from the log call lands in the catch, which logs again.
LogJsonSuccess(dialect) ==
    /\ lg.handled < MaxLoggedRequests
    /\ LET logged == logRequestWithTokens(Handling(dialect, "json success"))
       IN IF logged.threw
          THEN lg' = logRequestWithTokens(logged)
          ELSE lg' = [logged EXCEPT !.response = "json 200"]
    /\ UNCHANGED <<anth, oai, ndj, nrm, gate, conc, tmo, san, mdl>>

\* The backend call failed: the catch logs, then res.status(...).json.
LogJsonFailure(dialect) ==
    /\ lg.handled < MaxLoggedRequests
    /\ LET logged == logRequestWithTokens(Handling(dialect, "json failure"))
       IN IF logged.threw
          THEN lg' = logged
          ELSE lg' = [logged EXCEPT !.response = "json error"]
    /\ UNCHANGED <<anth, oai, ndj, nrm, gate, conc, tmo, san, mdl>>

\* The done line of a streamed request: closing events, the log call, res.end();
\* a throw leaves the callback before res.end().
LogStreamDone(dialect) ==
    /\ lg.handled < MaxLoggedRequests
    /\ LET written == [Handling(dialect, "stream done") EXCEPT !.response = "stream open"]
           logged == logRequestWithTokens(written)
       IN IF logged.threw
          THEN lg' = logged
          ELSE lg' = [logged EXCEPT !.response = "stream ended"]
    /\ UNCHANGED <<anth, oai, ndj, nrm, gate, conc, tmo, san, mdl>>

\* The error listener of a streamed request: res.end(), then the log call.
LogStreamError(dialect) ==
    /\ lg.handled < MaxLoggedRequests
    /\ LET ended == [Handling(dialect, "stream error") EXCEPT !.response = "stream ended"]
       IN lg' = logRequestWithTokens(ended)
    /\ UNCHANGED <<anth, oai, ndj, nrm, gate, conc, tmo, san, mdl>>

NextLogging ==
    \E dialect \in Dialects :
        \/ LogJsonSuccess(dialect)
        \/ LogJsonFailure(dialect)
        \/ LogStreamDone(dialect)
        \/ LogStreamError(dialect)

SpecLogging == InitLogging /\ [][NextLogging]_vars

\* ============================================================ Model listing
\* The configured models carry a display name, the backend's original name and
\* an enabled flag; the admin panel can change the display name and the flag.
Alias == <<"mine">>
ModelRecords ==
    { [originalName |-> o, displayName |-> d, enabled |-> e] :
        o \in { <<"llama3", Latest>>, <<"llama3", "8b">> },
        d \in { <<"llama3", Latest>>, <<"llama3", "8b">>, <<"llama3">>, Alias },
        e \in BOOLEAN }

\* Configurations: at most two models, with different original and display names.
ModelConfigs ==
    { c \in SUBSET ModelRecords :
        /\ Cardinality(c) <= 2
        /\ \A m1, m2 \in c :
              m1 /= m2 => (m1.originalName /= m2.originalName /\ m1.displayName /= m2.displayName)
        /\ \A m \in c : m.displayName \in {m.originalName, <<"llama3">>, Alias} }

KeyAllowLists ==
    { l \in SUBSET { Star, <<"llama3">>, <<"llama3", Latest>>, <<"llama3", "8b">>, Alias } :
        Cardinality(l) <= 2 }

ChatModels == { <<"llama3">>, <<"llama3", Latest>>, <<"llama3", "8b">>, Alias }

\* config.getEnabledModels()
getEnabledModels(models) == {m \in models : m.enabled}

\* GET /models: the display names of the enabled models the key may use.
listModels(models, allowedModels) ==
    LET availableModels == getEnabledModels(models)
        filteredModels ==
            IF Star \in allowedModels THEN availableModels
            ELSE { model \in availableModels :
                     \/ model.displayName \in allowedModels
                     \/ model.originalName \in allowedModels
                     \/ /\ endsWithLatest(model.originalName)
                        /\ sliceLatest(model.originalName) \in allowedModels
                     \/ \E allowed \in allowedModels :
                           allowed /= Star /\ appendLatest(allowed) = model.originalName }
    IN { model.displayName : model \in filteredModels }

\* getModelMapping(requestedName) over models whose display name may differ
\* from the original name: the original name of the match, else the request's.
mappedOriginalName(models, requestedName) ==
    LET byDisplay == {m \in models : m.displayName = requestedName}
        byLatest == IF includesColon(requestedName) THEN {}
                    ELSE {m \in models : m.originalName = appendLatest(requestedName)}
        byOriginal == {m \in models : m.originalName = requestedName}
        found == IF byDisplay /= {} THEN byDisplay
                 ELSE IF byLatest /= {} THEN byLatest ELSE byOriginal
    IN IF found = {} THEN requestedName ELSE (CHOOSE m \in found : TRUE).originalName

\* modelExists of POST /chat/completions
modelExists(models, trimmedModel) ==
    LET actualModel == mappedOriginalName(models, trimmedModel)
    IN \E m \in models : m.originalName = actualModel \/ m.displayName = trimmedModel

InitModels ==
    /\ \E models \in ModelConfigs : \E allowedModels \in KeyAllowLists :
          mdl = [models |-> models, allowedModels |-> allowedModels, phase |-> "idle",
                 listed |-> {}, dialect |-> "none", requestedModel |-> <<>>,
                 actualModel |-> <<>>, outcome |-> "none"]
    /\ anth = Idle
    /\ oai = Idle
    /\ ndj = Idle
    /\ nrm = Idle
    /\ gate = Idle
    /\ conc = Idle
    /\ tmo = Idle
    /\ san = Idle
    /\ lg = Idle

\* GET /models with the key.
ModelsList ==
    /\ mdl.phase = "idle"
    /\ mdl' = [mdl EXCEPT !.listed = listModels(mdl.models, mdl.allowedModels),
                          !.phase = "listed"]
    /\ UNCHANGED <<anth, oai, ndj, nrm, gate, conc, tmo, san, lg>>

\* A chat request with the same key, from checkModelAccess to the backend call.
ModelsChat(dialect, requestedModel) ==
    /\ mdl.phase = "listed"
    /\ LET chat == [mdl EXCEPT !.phase = "chatted", !.dialect = dialect,
                               !.requestedModel = requestedModel,
                               !.actualModel = mappedOriginalName(mdl.models, requestedModel)]
       IN IF ~hasAccess(mdl.allowedModels, requestedModel)
          THEN mdl' = [chat EXCEPT !.outcome = "denied"]
          ELSE IF dialect = "openai" /\ ~modelExists(mdl.models, requestedModel)
          THEN mdl' = [chat EXCEPT !.outcome = "not found"]
          ELSE mdl' = [chat EXCEPT !.outcome = "forwarded"]
    /\ UNCHANGED <<anth, oai, ndj, nrm, gate, conc, tmo, san, lg>>

NextModels ==
    \/ ModelsList
    \/ \E dialect \in Dialects : \E requestedModel \in ChatModels :
          ModelsChat(dialect, requestedModel)

SpecModels == InitModels /\ [][NextModels]_vars

\* ===================================================== Anthropic stream claims
Positions(w, type) == {j \in 1..Len(w) : w[j].type = type}
StartsOf(w) == SelectSeq(w, LAMBDA e : e.type = "content_block_start")
StopsOf(w) == SelectSeq(w, LAMBDA e : e.type = "content_block_stop")
IsToolUse(e) == e.type = "content_block_start" /\ e.detail \notin {"thinking", "text"}
Finalized(w) == Positions(w, "message_delta") /= {}

\* C1: the indices of the content_block_start events written to the client, in
\* emission order, are 0,1,2,...: thinking, text and tool_use blocks draw from
\* one counter, none repeated or skipped.
C1_StartIndicesGapless ==
    LET starts == StartsOf(anth.wire)
    IN \A i \in 1..Len(starts) : starts[i].index = i - 1

\* A stream that opened a thinking, a text and a tool_use block.
C1_Witness ==
    LET starts == StartsOf(anth.wire)
    IN /\ Len(starts) >= 3
       /\ \E i \in 1..Len(starts) : starts[i].detail = "thinking"
       /\ \E i \in 1..Len(starts) : starts[i].detail = "text"
       /\ \E i \in 1..Len(starts) : IsToolUse(starts[i])

\* A content_block_stop is written only after the content_block_start of the
\* same index, and at most once per index.
StopsAreOfStartedBlocks(w) ==
    /\ \A j \in Positions(w, "content_block_stop") :
          \E k \in Positions(w, "content_block_start") : k < j /\ w[k].index = w[j].index
    /\ \A j, k \in Positions(w, "content_block_stop") : w[j].index = w[k].index => j = k

\* Every content_block_start is followed by exactly one content_block_stop of its index.
EveryStartIsStopped(w) ==
    \A k \in Positions(w, "content_block_start") :
        Cardinality({j \in Positions(w, "content_block_stop") :
                        j > k /\ w[j].index = w[k].index}) = 1

\* C2 as stated: in every stream, whatever the backend delivers, once the
\* response has been ended each content_block_start has been followed by exactly
\* one content_block_stop of its index, and stops are only of started blocks.
C2_Original ==
    /\ StopsAreOfStartedBlocks(anth.wire)
    /\ anth.resEnded => EveryStartIsStopped(anth.wire)

\* C2 amended: a stop is never written for a block that was not started, nor
\* twice; and in a stream whose done event was processed every
\* content_block_start is followed by exactly one content_block_stop of its index.
C2_StopsMatchStarts ==
    /\ StopsAreOfStartedBlocks(anth.wire)
    /\ Finalized(anth.wire) => EveryStartIsStopped(anth.wire)

\* A finalized stream that had opened both a thinking and a text block.
C2_Witness ==
    /\ Finalized(anth.wire)
    /\ \E k \in Positions(anth.wire, "content_block_start") : anth.wire[k].detail = "thinking"
    /\ \E k \in Positions(anth.wire, "content_block_start") : anth.wire[k].detail = "text"
    /\ Len(StopsOf(anth.wire)) >= 2

\* The closing part of a finalized stream: stop of the thinking block if one was
\* started, stop of the text block if one was started, then tool_use
\* start/stop pairs.
RECURSIVE ToolUsePairs(_)
ToolUsePairs(s) ==
    \/ s = <<>>
    \/ /\ Len(s) >= 2
       /\ IsToolUse(s[1])
       /\ s[2].type = "content_block_stop"
       /\ s[2].index = s[1].index
       /\ ToolUsePairs(SubSeq(s, 3, Len(s)))

BlockStops(body, kind) ==
    LET started == SelectSeq(body, LAMBDA e : e.type = "content_block_start" /\ e.detail = kind)
    IN IF started = <<>> THEN <<>>
       ELSE << Event("content_block_stop", started[1].index, "", NoUsage) >>

FinalizedOrder(w) ==
    LET m == CHOOSE j \in Positions(w, "message_delta") : TRUE
        closing == {j \in 2..(m - 1) : w[j].type = "content_block_stop" \/ IsToolUse(w[j])}
        f == IF closing = {} THEN m ELSE CHOOSE j \in closing : \A k \in closing : j <= k
        body == SubSeq(w, 2, f - 1)
        closes == SubSeq(w, f, m - 1)
        stops == BlockStops(body, "thinking") \o BlockStops(body, "text")
    IN /\ Cardinality(Positions(w, "message_delta")) = 1
       /\ Len(w) = m + 2
       /\ w[m + 1].type = "message_stop"
       /\ w[m + 2].type = "done"
       /\ \A j \in 1..Len(body) :
             \/ body[j].type = "content_block_delta"
             \/ body[j].type = "content_block_start" /\ body[j].detail \in {"thinking", "text"}
       /\ Len(closes) >= Len(stops)
       /\ SubSeq(closes, 1, Len(stops)) = stops
       /\ ToolUsePairs(SubSeq(closes, Len(stops) + 1, Len(closes)))
       /\ w[m].detail = (IF Len(closes) > Len(stops) THEN "tool_use" ELSE "end_turn")
       /\ anth.resEnded

ThinkingThenTextWire ==
    << Event("message_start", NoIndex, "", NoUsage),
       Event("content_block_start", 0, "thinking", NoUsage),
       Event("content_block_delta", 0, "thinking_delta", NoUsage),
       Event("content_block_start", 1, "text", NoUsage),
       Event("content_block_delta", 1, "text_delta", NoUsage),
       Event("content_block_stop", 0, "", NoUsage),
       Event("content_block_stop", 1, "", NoUsage),
       Event("message_delta", NoIndex, "end_turn", <<0, 0>>),
       Event("message_stop", NoIndex, "", NoUsage),
       Event("done", NoIndex, "", NoUsage) >>

C3_StateOrder ==
    /\ anth.wire[1].type = "message_start"
    /\ Positions(anth.wire, "message_start") = {1}
    /\ anth.doneSeen => Finalized(anth.wire)
    /\ Finalized(anth.wire) => FinalizedOrder(anth.wire)
    /\ anth.scenario = Len(ThinkingThenText) => anth.wire = ThinkingThenTextWire

\* The step that processes the done event writes one tool_use pair per tracked tool call.
C3_DoneStep ==
    (~anth.doneSeen /\ anth'.doneSeen) =>
        /\ Cardinality({j \in 1..Len(anth'.wire) : IsToolUse(anth'.wire[j])}) = Len(anth'.toolCalls)
        /\ ~Finalized(anth.wire)

\* C3: message_start is first; on done the stream closes with stop(thinking) if
\* open, stop(text) if open, one start/stop pair per tracked tool call,
\* message_delta, message_stop, done, end of response, in that order; thinking
\* fragment, content fragment, done gives start(0,thinking), thinking_delta,
\* start(1,text), text_delta, stop(0), stop(1), message_delta(end_turn), message_stop.
C3_FinalizationOrder == []C3_StateOrder /\ [][C3_DoneStep]_vars

\* The thinking-then-text scenario ran to its end.
C3_Witness == anth.scenario = Len(ThinkingThenText) /\ anth.resEnded

\* ======================================================= OpenAI stream claims
ClosingChunks(w) == {j \in 1..Len(w) : w[j].kind = "chunk" /\ w[j].finish_reason /= Null}

\* C4: the closing chunk written on done has finish_reason "tool_calls" if an
\* event of the request (earlier or the done event itself) carried a non-empty
\* tool_calls list, and "stop" otherwise.
C4_FinishReason ==
    /\ \A j \in ClosingChunks(oai.wire) :
          oai.wire[j].finish_reason =
              (IF \E k \in 1..(j - 1) : oai.wire[k].delta.tool_calls /= <<>>
               THEN "tool_calls" ELSE "stop")
    /\ oai.doneSeen => Cardinality(ClosingChunks(oai.wire)) = 1

\* A stream that forwarded a tool call and was closed by done.
C4_Witness ==
    \E j \in ClosingChunks(oai.wire) :
        /\ oai.wire[j].finish_reason = "tool_calls"
        /\ \E k \in 1..(j - 1) : oai.wire[k].delta.tool_calls /= <<>>

\* C5: in every streamed response that carries a usage block, total_tokens
\* equals prompt_tokens + completion_tokens, whatever counters the backend
\* reported (absent and zero included).
C5_TotalIsSum ==
    \A j \in 1..Len(oai.wire) :
        oai.wire[j].usage /= NoUsage =>
            oai.wire[j].usage[3] = oai.wire[j].usage[1] + oai.wire[j].usage[2]

\* ======================================================= NDJSON parser claims
\* C6: a payload fed as two chunks cut inside a JSON line delivers the same
\* sequence of parsed objects as the payload fed as one chunk.
C6_SplitEquivalent ==
    (ndj.wholeFed = 1 /\ ndj.partsFed = 2) => ndj.parts.objects = ndj.whole.objects

\* The same, for cuts that fall between two characters.
CutsACharacter ==
    ndj.payload[ndj.offset] = "C3" /\ ndj.payload[ndj.offset + 1] = "A9"

SplitEquivalentBetweenCharacters ==
    (ndj.wholeFed = 1 /\ ndj.partsFed = 2 /\ ~CutsACharacter)
        => ndj.parts.objects = ndj.whole.objects

\* The values of the payload's non-empty lines, in order.
RECURSIVE LinesOf(_)
LinesOf(text) ==
    LET idx == indexOfNewline(text)
        line == trim(SubSeq(text, 1, idx - 1))
        rest == LinesOf(SubSeq(text, idx + 1, Len(text)))
    IN IF idx = 0 THEN <<>>
       ELSE IF line = <<>> THEN rest
       ELSE <<jsonValue(line)>> \o rest

\* C34: the callback fires exactly once per line of a payload made of complete
\* JSON lines, in order, however the payload is cut into chunks and also when
\* the callback fails on a line.
C34_OncePerLine ==
    (ndj.partsFed = 2 /\ ~CutsACharacter) =>
        ndj.parts.objects = LinesOf(toStringUtf8(ndj.payload))

\* ==================================================== request normalizer claims
Normalized == nrm.phase \in {"normalized", "forwarded"}
CanonicalThink == {JTrue, JFalse, "low", "medium", "high"}

\* The directive of the request that decides think: the first one present.
DecidingDirective(dialect, req) ==
    IF dialect = "openai"
    THEN IF req.think /= Undefined THEN req.think
         ELSE IF req.reasoning_effort /= Undefined THEN req.reasoning_effort
         ELSE req.reasoning.effort
    ELSE IF req.thinking /= Undefined THEN req.thinking ELSE req.extra_body_think

\* C7: a request normalized without error carries a think that is absent or one
\* of true, false, "low", "medium", "high", whatever the request and the
\* override supply; "minimal" resolves to false and any other unrecognized
\* string to true.
C7_ThinkCanonical ==
    Normalized =>
        /\ nrm.ollamaRequest.think \in CanonicalThink \cup {Undefined}
        /\ DecidingDirective(nrm.dialect, nrm.request) = "minimal"
              => nrm.ollamaRequest.think = JFalse
        /\ DecidingDirective(nrm.dialect, nrm.request) = "banana"
              => nrm.ollamaRequest.think = JTrue

\* What the request's own reasoning directives ask for, by the documented
\* mapping: think as given; else reasoning_effort; else reasoning.effort or
\* reasoning.enabled; Undefined when the request has none.
EffortMeans(effort) ==
    CASE effort = "minimal" -> JFalse
      [] effort \in {"low", "medium", "high"} -> effort
      [] OTHER -> JTrue

RequestThink(req) ==
    CASE req.think /= Undefined -> req.think
      [] req.think = Undefined /\ req.reasoning_effort /= Undefined
            -> EffortMeans(req.reasoning_effort)
      [] req.think = Undefined /\ req.reasoning_effort = Undefined /\ req.reasoning.present
            -> IF req.reasoning.effort /= Undefined THEN EffortMeans(req.reasoning.effort)
               ELSE IF req.reasoning.enabled = JFalse THEN JFalse ELSE JTrue
      [] OTHER -> Undefined

AnthropicThinkMeans(value) ==
    CASE value \in {JTrue, JFalse, "low", "medium", "high"} -> value
      [] value = "HIGH" -> "high"
      [] value = "minimal" -> JFalse
      [] OTHER -> Undefined

AnthropicRequestThink(req) ==
    IF req.thinking /= Undefined THEN AnthropicThinkMeans(req.thinking)
    ELSE AnthropicThinkMeans(req.extra_body_think)

SuppliesDirective(req) ==
    req.think /= Undefined \/ req.reasoning_effort /= Undefined \/ req.reasoning.present

CallerValue(req, key) ==
    LET named == CASE key = "temperature" -> req.temperature
                   [] key = "num_ctx" -> req.num_ctx
                   [] key = "num_predict" ->
                        (IF req.num_predict /= Absent THEN req.num_predict ELSE req.max_tokens)
                   [] OTHER -> Absent
    IN IF named /= Absent THEN named
       ELSE IF req.options[key] /= Absent THEN req.options[key]
       ELSE req.extra_body_options[key]

C10_ConflictRejected ==
    (/\ nrm.dialect = "openai"
     /\ nrm.request.reasoning.present
     /\ nrm.request.reasoning.enabled /= Undefined
     /\ nrm.request.reasoning.effort /= Undefined)
        => nrm.phase \in {"received", "rejected"}

\* ================================================================ Gate claims
\* validateApiKey accepted the key and checkModelAccess has acted.
GateAccessChecked ==
    gate.apiKey /= "" /\ gate.phase \in {"authorized", "awaiting", "responded"}
AccessGranted ==
    gate.requestedModel /= <<>> /\ gate.requestedModel = trimModel(gate.request.model)
stripLatest(name) == IF endsWithLatest(name) THEN sliceLatest(name) ELSE name

\* C11: for every base name m, a key whose allow-list contains m or m:latest is
\* granted access to a request for m and to a request for m:latest.
C11_TagSymmetric ==
    \A m \in BaseNames :
        ( /\ GateAccessChecked
          /\ m \in gate.allowedModels \/ appendLatest(m) \in gate.allowedModels
          /\ trimModel(gate.request.model) \in {m, appendLatest(m)} )
        => AccessGranted

\* The allow-list holds only llama3:latest, the request names llama3 with
\* surrounding whitespace, and access was granted.
C11_Witness ==
    /\ GateAccessChecked /\ AccessGranted
    /\ gate.allowedModels = { <<"llama3", Latest>> }
    /\ gate.request.model = [pad |-> TRUE, name |-> <<"llama3">>]

\* C12: a valid key whose allow-list holds neither "*", the requested name, the
\* name without :latest nor the name with :latest appended gets HTTP 403 with
\* code model_access_denied, and nothing is forwarded.
C12_AccessDenied ==
    LET name == trimModel(gate.request.model)
    IN ( /\ GateAccessChecked
         /\ name /= <<>>
         /\ Star \notin gate.allowedModels
         /\ name \notin gate.allowedModels
         /\ stripLatest(name) \notin gate.allowedModels
         /\ appendLatest(name) \notin gate.allowedModels )
       => /\ gate.phase = "responded"
          /\ gate.response.status = 403
          /\ gate.response.code = "model_access_denied"
          /\ ~gate.forwarded

C12_Witness ==
    /\ gate.allowedModels = { <<"llama2">> }
    /\ trimModel(gate.request.model) = <<"llama3", Latest>>
    /\ gate.apiKey = "k1"
    /\ gate.response = Response(403, "permission_error", "model_access_denied")

\* The backend call of the request was rejected with this error.
BackendFailed ==
    gate.phase \in {"responded", "unhandled"} /\ gate.forwarded /\ gate.error /= NoError

\* C13: a backend call that fails with ECONNREFUSED or ENOTFOUND and no HTTP
\* response is answered, in either dialect, with 503,
\* service_unavailable_error, service_unavailable.
C13_ServiceUnavailable ==
    ( /\ BackendFailed
      /\ ~gate.error.hasResponse
      /\ gate.error.code \in {"ECONNREFUSED", "ENOTFOUND"} )
    => gate.response = Response(503, "service_unavailable_error", "service_unavailable")

C13_Witness ==
    /\ BackendFailed
    /\ gate.request.dialect = "anthropic"
    /\ gate.error.code = "ENOTFOUND"
    /\ gate.response.status = 503

\* C14: a backend HTTP error is mapped, in either dialect, by the table:
\* 401 -> (401, authentication_error), 403 -> (403, permission_error,
\* forbidden), 429 -> (429, rate_limit_error, rate_limit_exceeded) and every
\* 5xx -> (500, server_error, server_error).
C14_TaxonomyTable ==
    (BackendFailed /\ gate.error.hasResponse) =>
        /\ gate.error.status = 401 =>
              gate.response.status = 401 /\ gate.response.type = "authentication_error"
        /\ gate.error.status = 403 =>
              gate.response = Response(403, "permission_error", "forbidden")
        /\ gate.error.status = 429 =>
              gate.response = Response(429, "rate_limit_error", "rate_limit_exceeded")
        /\ gate.error.status \in 500..599 =>
              gate.response = Response(500, "server_error", "server_error")

\* C15: a backend 400 whose error message mentions "model" or "not found" is
\* mapped, in either dialect, to (404, invalid_request_error, model_not_found);
\* any other backend 400 to (400, invalid_request_error, invalid_request).
C15_BadRequestMapping ==
    (BackendFailed /\ gate.error.hasResponse /\ gate.error.status = 400) =>
        LET errorMessage == extractOllamaErrorMessage(gate.error.data, gate.error.message)
        IN IF includes(errorMessage, <<"model">>) \/ includes(errorMessage, <<"not", "found">>)
           THEN gate.response = Response(404, "invalid_request_error", "model_not_found")
           ELSE gate.response = Response(400, "invalid_request_error", "invalid_request")

\* C19: POST /messages with a valid key in X-API-Key and no Authorization
\* header passes validateApiKey as the same key sent as a bearer token does.
C19_XApiKeyAccepted ==
    ( /\ gate.phase \notin {"idle", "received"}
      /\ gate.request.dialect = "anthropic"
      /\ gate.request.authorization = NoAuthorization
      /\ gate.request.xApiKey \in ApiKeyValues )
    => gate.apiKey = gate.request.xApiKey /\ gate.response.status /= 401

\* C20: a request that passed the gate, for a model the gateway knows, whose
\* messages field is missing or not an array is answered with HTTP 400 of type
\* invalid_request_error and is not forwarded.
C20_MessagesValidated ==
    ( /\ GateAccessChecked /\ AccessGranted
      /\ gate.requestedModel \in gate.models
      /\ gate.phase \in {"awaiting", "responded"}
      /\ gate.request.messages /= JArray )
    => /\ gate.response.status = 400
       /\ gate.response.type = "invalid_request_error"
       /\ ~gate.forwarded

\* ============================================================== Stream claims
\* The handler's own state, without the observers that count lines.
HandlerState(st) == [st EXCEPT !.received = 0, !.afterDone = 0]

\* C16: once a line with done=true has been processed, a later line changes
\* nothing: it is not processed and nothing more is written to the client.
C16_ClosedAfterDone ==
    [][ (anth.doneSeen /\ anth'.received > anth.received)
            => HandlerState([anth' EXCEPT !.scenario = 0])
                   = HandlerState([anth EXCEPT !.scenario = 0]) ]_vars

C18_ErrorEventWritten ==
    [][ (~anth.streamErrored /\ anth'.streamErrored /\ anth.headersSent /\ ~anth.resEnded)
            => /\ anth'.wire = Append(anth.wire, Event("error", NoIndex, "server_error", NoUsage))
               /\ anth'.resEnded ]_vars

\* C21: a request appends exactly one usage-log record: never more than one,
\* and one once its response has been ended.
C21_OneLogRecord ==
    /\ Len(anth.logs) <= 1
    /\ anth.resEnded => Len(anth.logs) = 1

\* C25: when one backend event carries both thinking and content and neither
\* block has been started, the thinking block gets the lower index and its
\* content_block_start is written before the text block's.
C25_ThinkingBeforeText ==
    [][ ( /\ anth'.received > anth.received
          /\ ~anth.resEnded
          /\ ~anth.thinkingBlockStarted /\ ~anth.textBlockStarted
          /\ anth'.thinkingBlockStarted /\ anth'.textBlockStarted )
        => /\ anth'.thinkingBlockIndex < anth'.textBlockIndex
           /\ \E i, j \in 1..Len(anth'.wire) :
                 /\ i < j
                 /\ anth'.wire[i].type = "content_block_start"
                 /\ anth'.wire[i].detail = "thinking"
                 /\ anth'.wire[j].type = "content_block_start"
                 /\ anth'.wire[j].detail = "text" ]_vars

\* C23: a chat request issues at most one backend call; when the call fails no
\* second call is made and the failure is answered once, with the Error
\* Mapper's result.
C23_NoRetries ==
    /\ gate.backendCalls <= 1
    /\ gate.responsesSent <= 1
    /\ BackendFailed =>
          /\ gate.backendCalls = 1
          /\ gate.responsesSent = 1
          /\ gate.response = IF gate.request.dialect = "openai"
                             THEN createOpenAIError(gate.error)
                             ELSE createAnthropicError(gate.error)

\* ========================================================== Concurrency claim
\* The translator state of a request that received these lines with no other
\* request in flight.
RECURSIVE RunAlone(_, _)
RunAlone(dialect, lines) ==
    IF lines = <<>> THEN newTranslatorState(dialect)
    ELSE translate(dialect, RunAlone(dialect, SubSeq(lines, 1, Len(lines) - 1)),
                   lines[Len(lines)])

CarriesReasoning(w) == \E j \in 1..Len(w) : w[j].delta.reasoning_content /= Undefined
RECURSIVE Repeat(_, _)
Repeat(str, n) == IF n = 0 THEN "" ELSE Repeat(str, n - 1) \o str

\* What the request says about showing reasoning: a reasoning object (shown
\* unless its exclude is true), else a parseable exclude_reasoning, else nothing.
RequestShowsReasoning(req) ==
    IF req.reasoning.present
    THEN IF req.reasoning.exclude = JTrue THEN JFalse ELSE JTrue
    ELSE IF parseBoolean(req.exclude_reasoning) = Undefined THEN Undefined
    ELSE IF parseBoolean(req.exclude_reasoning) = JTrue THEN JFalse ELSE JTrue

RoleChunk == Chunk([EmptyDelta EXCEPT !.role = "assistant"], Null, NoUsage)

\* A chunk between the role preface and the closing chunk: no role, no
\* finish_reason, and content, reasoning_content or tool_calls in its delta.
IsDeltaChunk(c) ==
    /\ c.kind = "chunk"
    /\ c.finish_reason = Null
    /\ c.delta.role = Undefined
    /\ Truthy(c.delta.content) \/ Truthy(c.delta.reasoning_content) \/ c.delta.tool_calls /= <<>>

IsClosingChunk(c) ==
    /\ c.kind = "chunk"
    /\ c.delta = EmptyDelta
    /\ c.finish_reason \in {"stop", "tool_calls"}
    /\ Len(c.usage) = 3

StreamShape(w) ==
    /\ Len(w) >= 3
    /\ w[1] = RoleChunk
    /\ \A j \in 2..(Len(w) - 2) : IsDeltaChunk(w[j])
    /\ IsClosingChunk(w[Len(w) - 1])
    /\ w[Len(w)] = DoneLine

\* C26: the stream of a request that receives done is: the role chunk alone,
\* chunks with a non-empty delta, one closing chunk with an empty delta, a
\* finish_reason and usage, the [DONE] line; then the response is ended and
\* nothing is written after [DONE].
C26_StreamShape ==
    /\ []((oai.doneSeen /\ ~oai.streamErrored) => (StreamShape(oai.wire) /\ oai.resEnded))
    /\ [][oai.doneSeen => oai'.wire = oai.wire]_vars

\* done arrived after a line with content, and one more line arrived after it.
C26_Witness ==
    /\ oai.doneSeen /\ oai.afterDone = 1
    /\ Len(oai.wire) = 4
    /\ oai.wire[2].delta.content = "c1"

\* C27: the tool_use pairs written at finalization are those of the last
\* non-empty tool_calls list seen, each a start immediately followed by the
\* stop of the same index; none is written before done; stop_reason is
\* "tool_use" exactly when there is such a pair.
C27_ToolCallsReplaced ==
    LET w == anth.wire
        starts == {j \in 1..Len(w) : IsToolUse(w[j])}
        toolUse == SelectSeq(w, IsToolUse)
    IN /\ ~Finalized(w) => starts = {}
       /\ Finalized(w) =>
             /\ Len(toolUse) = Len(anth.seenToolCalls)
             /\ \A i \in 1..Len(toolUse) :
                   toolUse[i].detail =
                       "tool_use:" \o convertToolCallToAnthropicBlock(anth.seenToolCalls[i])
             /\ \A j \in starts :
                   /\ j < Len(w)
                   /\ w[j + 1].type = "content_block_stop"
                   /\ w[j + 1].index = w[j].index
             /\ \A j \in Positions(w, "message_delta") :
                   /\ (w[j].detail = "tool_use") <=> (starts /= {})
                   /\ \A k \in starts : k < j

\* Two lines carried tool calls, the second one a single call: one pair.
C27_Witness ==
    /\ Finalized(anth.wire)
    /\ anth.toolCallLines = 2
    /\ Len(anth.seenToolCalls) = 1
    /\ Len(SelectSeq(anth.wire, IsToolUse)) = 1

\* C28: the prompt and completion counts of the closing chunk are the most
\* recent prompt_eval_count and eval_count seen up to and including the done
\* line, not their sums.
C28_CountersCumulative ==
    \A j \in ClosingChunks(oai.wire) :
        /\ oai.wire[j].usage[1] = oai.seenPrompt
        /\ oai.wire[j].usage[2] = oai.seenEval

\* Two lines carried counters, the done line among them.
C28_Witness ==
    /\ oai.counterLines = 2 /\ oai.received = 2
    /\ \E j \in ClosingChunks(oai.wire) :
          oai.wire[j].usage[1] = 3 /\ oai.wire[j].usage[2] = 2


\* ================================================== Sampling parameter merging
\* C29: in either dialect the named top-level sampling fields of the request win
\* over the override options, the extra/passthrough bag and the request options
\* bag: a request that names a temperature is forwarded with that temperature.
C29_NamedFieldsWin ==
    (Normalized /\ nrm.request.temperature /= Absent) =>
        nrm.ollamaRequest.options["temperature"] = nrm.request.temperature


\* ============================================================= Timeout claims
\* The order the locations are scanned in according to the claim.
StatedOrder == <<"root", "metadata", "extra_body", "overrides", "config">>
Qualifying(l) == {name \in TimeoutNames : normalizeTimeoutValue(tmo.supplied[l][name]) /= Absent}
FirstQualifying == {i \in 1..Len(StatedOrder) :
                      /\ Qualifying(StatedOrder[i]) /= {}
                      /\ \A j \in 1..(i - 1) : Qualifying(StatedOrder[j]) = {}}

\* C30: the timeout of the backend call is the normalized value of the first
\* location, in the order root, metadata, extra_body, override, global default,
\* that holds a non-null finite value; with none it is 120 seconds on the OpenAI
\* dialect and no timeout on the Anthropic dialect.
C30_TimeoutOrder ==
    tmo.phase = "posted" =>
        IF FirstQualifying = {}
        THEN tmo.axiosTimeout = (IF tmo.dialect = "openai" THEN DefaultOpenAITimeout ELSE 0)
        ELSE \E i \in FirstQualifying : \E name \in Qualifying(StatedOrder[i]) :
                tmo.axiosTimeout = normalizeTimeoutValue(tmo.supplied[StatedOrder[i]][name])


\* ============================================================ Sanitizer claims
Sanitized == san.calls > 0 /\ san.given.object

\* C31: the sanitizer returns a copy and leaves its input unchanged; with
\* stripping enabled the result holds exactly the input's known-key entries,
\* with stripping disabled exactly the input's entries; and sanitizing the
\* result again returns it unchanged.
C31_SanitizerCopy ==
    Sanitized =>
        /\ san.options = san.given
        /\ \A k \in OptionKeys :
              san.sanitized.entries[k] =
                  (IF san.allowUnverified \/ k \in knownOptionKeys
                   THEN san.given.entries[k] ELSE Absent)
        /\ processOptions(san.sanitized.entries, san.allowUnverified) = san.sanitized.entries

\* A call that passed an unknown key through and a call that stripped one while
\* keeping a known key.
C31_Witness ==
    /\ Sanitized
    /\ ~san.allowUnverified
    /\ san.given.entries["custom"] /= Absent
    /\ san.given.entries["temperature"] /= Absent
    /\ san.sanitized.entries["custom"] = Absent
    /\ san.sanitized.entries["temperature"] = san.given.entries["temperature"]
    /\ <<"user", "allow">> \in san.warnedKeys

WarnedAtMostOnce == \A w \in WarningKeys : san.warnings[w] <= 1

\* C32: a warning for one (unknown key, mode) pair is logged at most once in
\* the life of the process, whichever requests the calls come from, and the
\* set of warned keys only grows.
C32_WarnOnce ==
    /\ []WarnedAtMostOnce
    /\ [][san.warnedKeys \subseteq san.warnedKeys']_vars

\* Both requests have passed the same unknown key in the same mode.
C32_Witness ==
    /\ san.calls >= 2
    /\ san.caller = "r2"
    /\ san.given.entries["custom"] /= Absent
    /\ ~san.allowUnverified
    /\ san.warnings[<<"custom", "block">>] = 1
    /\ san.warnings[<<"custom", "allow">>] = 1


\* ============================================================ Usage log claims
\* What the caller gets on each path when the log call returns.
ResponseWhenLogged(path) ==
    CASE path = "json success" -> "json 200"
      [] path = "json failure" -> "json error"
      [] path = "stream done" -> "stream ended"
      [] path = "stream error" -> "stream ended"

\* C33: the response the caller gets does not depend on whether the usage-log
\* record could be appended.
C33_LoggingNeverThrows ==
    lg.handled > 0 => lg.response = ResponseWhenLogged(lg.path)


\* ================================================= Gate side effects and totality
\* The answers the Access Control Gate gives by itself.
GateRejections ==
    {Response(401, "authentication_error", "missing_api_key"),
     Response(401, "authentication_error", "invalid_api_key"),
     Response(400, "invalid_request_error", "missing_model"),
     Response(403, "permission_error", "model_access_denied")}

RejectedByGate ==
    gate.phase = "responded" /\ gate.error = NoError /\ gate.response \in GateRejections

\* C36: a request rejected by the gate (401, 400 missing model, 403) has no side
\* effect: no backend call, no usage counted for the key, no log record.
C36_RejectedNoSideEffect ==
    RejectedByGate =>
        /\ gate.backendCalls = 0
        /\ gate.usageCount = 0
        /\ gate.logRecords = 0

\* A recognised key is refused a model it may not use.
C36_Witness ==
    /\ RejectedByGate
    /\ gate.response.status = 403
    /\ gate.apiKey = "k1"
    /\ gate.usageCount = 0

\* C38: for every failure of the backend call the mapper returns a status/error
\* pair without throwing, and the caller receives exactly one response.
C38_MapperTotal ==
    (gate.forwarded /\ gate.error /= NoError) =>
        /\ (IF gate.request.dialect = "openai"
            THEN createOpenAIError(gate.error) ELSE createAnthropicError(gate.error)) /= Unhandled
        /\ gate.phase = "responded"
        /\ gate.responsesSent = 1


\* ============================================================ Known-key claim
\* C39: with the allow-unverified flag off, the options sent to the backend
\* hold only keys of the known-key list, in either dialect.
C39_OnlyKnownKeys ==
    (Normalized /\ ~nrm.allowUnverified) =>
        \A k \in OptionKeys :
            nrm.ollamaRequest.options[k] /= Absent => k \in knownOptionKeys


\* ======================================================= Model listing claims
\* C37: every model id that GET /models returns for a key is accepted by
\* checkModelAccess when the same key asks for a chat completion with it.
C37_ListedIsAccepted ==
    (mdl.phase = "chatted" /\ mdl.dialect = "openai" /\ mdl.requestedModel \in mdl.listed)
        => mdl.outcome /= "denied"

\* The configured models the request's name stands for.
Named == {m \in mdl.models :
            m.displayName = mdl.requestedModel \/ m.originalName = mdl.actualModel}

\* C40: a chat request that names a model whose enabled flag is false is not
\* forwarded to the backend, in either dialect.
C40_DisabledNotForwarded ==
    (mdl.phase = "chatted" /\ Named /= {} /\ \A m \in Named : ~m.enabled)
        => mdl.outcome /= "forwarded"


\* ========================================================== Termination claim
\* C35: once the backend stream has ended or errored, or the client has
\* disconnected, the client response is eventually ended.
C35_EventuallyEnded ==
    (oai.streamEnded \/ oai.streamErrored \/ oai.clientClosed) ~> (oai.resEnded \/ oai.clientClosed)

====
